---- MODULE Spec2Model ----
(***************************************************************************)
(* UniversalHash v4 (crates/core): the hasher facade, the scratchpad       *)
(* filler, the chain engine, the address mixer and the primitives, as a    *)
(* state machine over the fields of UniversalHash.                         *)
(*                                                                         *)
(* Widths are the program's: bytes are 0..255, a chain state is 32 bytes,  *)
(* a block is 64 bytes, a u64 is a 64-bit vector.  Two program constants   *)
(* are scaled so that the state space is finite and small: the number of   *)
(* blocks of a scratchpad (2^LogBlocks instead of 2^13) and the number of  *)
(* rounds of a chain (MaxRounds instead of 12288).                         *)
(*                                                                         *)
(* blake3::hash, Sha256::digest and sha2::compress256 are calls into       *)
(* external crates; they are modelled by fixed deterministic mixing        *)
(* functions of all their input bytes (ExternDigest).                      *)
(***************************************************************************)
EXTENDS Integers, Sequences, FiniteSets, TLC

\* ------------------------------------------------------------------ bounds
\* log2 of the number of blocks per scratchpad (the program has 13).
LogBlocks == 1
\* rounds per chain (the program has 12288).
MaxRounds == 3
\* hash calls made on the one reused hasher.
MaxCalls == 2

\* ------------------------------------------------------ params.rs constants
CHAINS == 4
BLOCK_SIZE == 64
BLOCKS_PER_SCRATCHPAD == 2 ^ LogBlocks
SCRATCHPAD_SIZE == BLOCKS_PER_SCRATCHPAD * BLOCK_SIZE
ROUNDS == MaxRounds
ADDRESS_MASK == BLOCKS_PER_SCRATCHPAD - 1

Chain == 0 .. (CHAINS - 1)
Byte == 0 .. 255

\* ------------------------------------------------------------- byte arrays
\* TLC keeps a function expression [i \in S |-> e] unevaluated and computes e
\* again at every application; comparing the function makes TLC compute it
\* once.  Force(f) is f.
Force(f) == IF f = f THEN f ELSE f
\* An operator's argument is computed when it is first used; Evaluated(x) uses
\* x, so that a recursion on x keeps a value and not a chain of pending calls.
Evaluated(x) == x = x
\* the element of a set of one element: Only({e(x) : x \in {v}}) is e(v), with v
\* computed once, before e
Only(S) == CHOOSE x \in S : TRUE
\* e, computed once x is (x may be a tuple: its components are computed in
\* order).  After(x, e) is e.
After(x, e) == IF x = x THEN e ELSE e

\* A byte array is a function 0..n-1 -> Byte, indexed as in the source.
BLen(a) == Cardinality(DOMAIN a)
Empty == [i \in {} |-> 0]
\* a[lo..hi] of Rust: the bytes lo .. hi-1.
Slice(a, lo, hi) == Force([i \in 0 .. (hi - lo - 1) |-> a[lo + i]])
Concat(a, b) ==
  LET n == BLen(a)
  IN  Force([i \in 0 .. (n + BLen(b) - 1) |-> IF i < n THEN a[i] ELSE b[i - n]])
Fill(n, v) == Force([i \in 0 .. (n - 1) |-> v])
\* the byte array of a tuple of bytes
Bytes(t) == Force([i \in 0 .. (Len(t) - 1) |-> t[i + 1]])
\* dst[at .. at+len(src)].copy_from_slice(src)
CopyInto(dst, at, src) ==
  LET n == BLen(src)
  IN  Force([i \in DOMAIN dst |-> IF i >= at /\ i < at + n THEN src[i - at] ELSE dst[i]])

\* ------------------------------------------------------------ bit operations
RECURSIVE XorBits(_, _, _)
XorBits(a, b, n) ==
  IF n = 0 THEN 0
  ELSE ((a + b) % 2) + 2 * XorBits(a \div 2, b \div 2, n - 1)

XorNib == Force([a \in 0 .. 15 |-> Force([b \in 0 .. 15 |-> XorBits(a, b, 4)])])
\* a ^ b on u8
Xor8(a, b) == 16 * XorNib[a \div 16][b \div 16] + XorNib[a % 16][b % 16]
RECURSIVE AndBits(_, _, _)
AndBits(a, b, n) ==
  IF n = 0 THEN 0
  ELSE ((a % 2) * (b % 2)) + 2 * AndBits(a \div 2, b \div 2, n - 1)
AndNib == Force([a \in 0 .. 15 |-> Force([b \in 0 .. 15 |-> AndBits(a, b, 4)])])
\* a & b on u8
And8(a, b) == 16 * AndNib[a \div 16][b \div 16] + AndNib[a % 16][b % 16]
\* a ^ b on byte arrays of one length
XorBytes(a, b) == Force([i \in DOMAIN a |-> Xor8(a[i], b[i])])

\* ------------------------------------------------------------------- u64
\* A u64 is its 64 bits, bit i of weight 2^i.
ZeroU64 == Force([i \in 0 .. 63 |-> 0])
\* u64::from_le_bytes
u64_from_le_bytes(b) == Force([i \in 0 .. 63 |-> (b[i \div 8] \div (2 ^ (i % 8))) % 2])
\* u64::to_le_bytes
u64_to_le_bytes(x) ==
  Force([k \in 0 .. 7 |->
     x[8*k] + 2 * x[8*k+1] + 4 * x[8*k+2] + 8 * x[8*k+3]
     + 16 * x[8*k+4] + 32 * x[8*k+5] + 64 * x[8*k+6] + 128 * x[8*k+7]])
\* a small non-negative integer as u64 (chain as u64, round as u64)
u64_of_nat(n) == Force([i \in 0 .. 63 |-> IF i < 30 THEN (n \div (2 ^ i)) % 2 ELSE 0])
\* a ^ b on u64
u64_xor(a, b) == Force([i \in 0 .. 63 |-> (a[i] + b[i]) % 2])
\* x.rotate_left(n)
u64_rotate_left(x, n) == Force([i \in 0 .. 63 |-> x[(i + 64 - (n % 64)) % 64]])

\* sum over i in 0..k of A[i] * B[k-i], for k < 8
LimbDot(A, B, k) ==
    (IF k >= 0 THEN A[0] * B[k] ELSE 0)
  + (IF k >= 1 THEN A[1] * B[k - 1] ELSE 0)
  + (IF k >= 2 THEN A[2] * B[k - 2] ELSE 0)
  + (IF k >= 3 THEN A[3] * B[k - 3] ELSE 0)
  + (IF k >= 4 THEN A[4] * B[k - 4] ELSE 0)
  + (IF k >= 5 THEN A[5] * B[k - 5] ELSE 0)
  + (IF k >= 6 THEN A[6] * B[k - 6] ELSE 0)
  + (IF k >= 7 THEN A[7] * B[k - 7] ELSE 0)
\* the low 8 bytes of the product of two 8-byte little-endian numbers: column
\* sums with the carry of the column before
MulLimbs(A, B) ==
  LET s0 == LimbDot(A, B, 0)
      s1 == LimbDot(A, B, 1) + (s0 \div 256)
      s2 == LimbDot(A, B, 2) + (s1 \div 256)
      s3 == LimbDot(A, B, 3) + (s2 \div 256)
      s4 == LimbDot(A, B, 4) + (s3 \div 256)
      s5 == LimbDot(A, B, 5) + (s4 \div 256)
      s6 == LimbDot(A, B, 6) + (s5 \div 256)
      s7 == LimbDot(A, B, 7) + (s6 \div 256)
  IN  Bytes(<< s0 % 256, s1 % 256, s2 % 256, s3 % 256,
               s4 % 256, s5 % 256, s6 % 256, s7 % 256 >>)
\* a.wrapping_mul(b) on u64
u64_wrapping_mul(a, b) ==
  After(<< a, b >>, u64_from_le_bytes(MulLimbs(u64_to_le_bytes(a), u64_to_le_bytes(b))))

\* ---------------------------------------------- primitives.rs: AES (software)
SBOX ==
  LET t == <<
      99, 124, 119, 123, 242, 107, 111, 197, 48, 1, 103, 43, 254, 215, 171, 118,
      202, 130, 201, 125, 250, 89, 71, 240, 173, 212, 162, 175, 156, 164, 114, 192,
      183, 253, 147, 38, 54, 63, 247, 204, 52, 165, 229, 241, 113, 216, 49, 21,
      4, 199, 35, 195, 24, 150, 5, 154, 7, 18, 128, 226, 235, 39, 178, 117,
      9, 131, 44, 26, 27, 110, 90, 160, 82, 59, 214, 179, 41, 227, 47, 132,
      83, 209, 0, 237, 32, 252, 177, 91, 106, 203, 190, 57, 74, 76, 88, 207,
      208, 239, 170, 251, 67, 77, 51, 133, 69, 249, 2, 127, 80, 60, 159, 168,
      81, 163, 64, 143, 146, 157, 56, 245, 188, 182, 218, 33, 16, 255, 243, 210,
      205, 12, 19, 236, 95, 151, 68, 23, 196, 167, 126, 61, 100, 93, 25, 115,
      96, 129, 79, 220, 34, 42, 144, 136, 70, 238, 184, 20, 222, 94, 11, 219,
      224, 50, 58, 10, 73, 6, 36, 92, 194, 211, 172, 98, 145, 149, 228, 121,
      231, 200, 55, 109, 141, 213, 78, 169, 108, 86, 244, 234, 101, 122, 174, 8,
      186, 120, 37, 46, 28, 166, 180, 198, 232, 221, 116, 31, 75, 189, 139, 138,
      112, 62, 181, 102, 72, 3, 246, 14, 97, 53, 87, 185, 134, 193, 29, 158,
      225, 248, 152, 17, 105, 217, 142, 148, 155, 30, 135, 233, 206, 85, 40, 223,
      140, 161, 137, 13, 191, 230, 66, 104, 65, 153, 45, 15, 176, 84, 187, 22 >>
  IN  Force([i \in 0 .. 255 |-> t[i + 1]])

\* multiply by 2 in GF(2^8), reduction polynomial x^8 + x^4 + x^3 + x + 1
gf_mul2(x) ==
  LET hi == x \div 128
      shifted == (x * 2) % 256
  IN  Xor8(shifted, hi * 27)
\* multiply by 3 in GF(2^8)
gf_mul3(x) == Xor8(gf_mul2(x), x)

Xor4(a, b, c, d) == Xor8(Xor8(a, b), Xor8(c, d))

\* SubBytes of aesenc_round
SubBytes(state) == Force([i \in 0 .. 15 |-> SBOX[state[i]]])
\* ShiftRows of aesenc_round: s[i] = t[(i + 4 * (i % 4)) % 16]
ShiftRows(t) == Force([i \in 0 .. 15 |-> t[(i + 4 * (i % 4)) % 16]])
\* MixColumns of aesenc_round
MixColumns(s) ==
  Force([j \in 0 .. 15 |->
     LET i == 4 * (j \div 4)
         a0 == s[i]
         a1 == s[i + 1]
         a2 == s[i + 2]
         a3 == s[i + 3]
     IN  CASE j % 4 = 0 -> Xor4(gf_mul2(a0), gf_mul3(a1), a2, a3)
           [] j % 4 = 1 -> Xor4(a0, gf_mul2(a1), gf_mul3(a2), a3)
           [] j % 4 = 2 -> Xor4(a0, a1, gf_mul2(a2), gf_mul3(a3))
           [] OTHER     -> Xor4(gf_mul3(a0), a1, a2, gf_mul2(a3))])
\* one AESENC round: SubBytes, ShiftRows, MixColumns, AddRoundKey
aesenc_round(state, round_key) ==
  After(state, XorBytes(MixColumns(ShiftRows(SubBytes(state))), round_key))

\* four AESENC rounds with one key (scratchpad initialisation)
aes_expand_block(state, key) ==
  aesenc_round(aesenc_round(aesenc_round(aesenc_round(state, key), key), key), key)

\* AES compression: low half with keys 0,1,2,3, high half with keys 2,3,0,1
aes_compress(state, block) ==
  LET k0 == Slice(block, 0, 16)
      k1 == Slice(block, 16, 32)
      k2 == Slice(block, 32, 48)
      k3 == Slice(block, 48, 64)
      state_lo ==
        aesenc_round(aesenc_round(aesenc_round(aesenc_round(
          Slice(state, 0, 16), k0), k1), k2), k3)
      state_hi ==
        aesenc_round(aesenc_round(aesenc_round(aesenc_round(
          Slice(state, 16, 32), k2), k3), k0), k1)
  IN  After(<< state_lo, state_hi >>, Concat(state_lo, state_hi))

\* ------------------------------------- primitives.rs: AES (hardware paths)
\* The AES instructions are defined on the 4 x 4 byte matrix of FIPS 197, in
\* which byte r + 4 * c of the register is row r of column c.
\* the product of two bytes in GF(2^8), one bit of b at a time
RECURSIVE fips_gf_mul(_, _, _)
fips_gf_mul(a, b, n) ==
  IF n = 0 THEN 0
  ELSE LET rest == fips_gf_mul(gf_mul2(a), b \div 2, n - 1)
       IN  IF b % 2 = 1 THEN Xor8(a, rest) ELSE rest
\* acc * p^2 * p^4 * ... * p^(2^n) in GF(2^8)
RECURSIVE fips_gf_pow(_, _, _)
fips_gf_pow(acc, p, n) ==
  IF n = 0 THEN acc
  ELSE Only({ Only({ fips_gf_pow(acc2, q, n - 1) : acc2 \in {fips_gf_mul(acc, q, 8)} }) :
                q \in {fips_gf_mul(p, p, 8)} })
\* the inverse in GF(2^8), x^254 (0 for 0)
fips_gf_inv(x) == fips_gf_pow(1, x, 7)
\* a byte rotated left by n bits
fips_rotl8(x, n) == ((x * (2 ^ n)) % 256) + (x \div (2 ^ (8 - n)))
\* the S-box of FIPS 197: the inverse, then the affine transformation
fips_sbox(x) ==
  Only({ Xor8(Xor8(Xor4(b, fips_rotl8(b, 1), fips_rotl8(b, 2), fips_rotl8(b, 3)),
                   fips_rotl8(b, 4)), 99) : b \in {fips_gf_inv(x)} })
fips_SubBytes(st) == Force([i \in 0 .. 15 |-> fips_sbox(st[i])])
\* row r is rotated left by r columns
fips_ShiftRows(st) ==
  Force([i \in 0 .. 15 |->
     LET r == i % 4
         c == i \div 4
     IN  st[r + 4 * ((c + r) % 4)]])
\* every column is multiplied by the matrix of rows (2 3 1 1) rotated right
fips_MixColumns(st) ==
  Force([i \in 0 .. 15 |->
     LET r == i % 4
         c == i \div 4
         m(k) == << 2, 3, 1, 1 >>[((k - r + 4) % 4) + 1]
     IN  Xor4(fips_gf_mul(st[4 * c], m(0), 8), fips_gf_mul(st[4 * c + 1], m(1), 8),
              fips_gf_mul(st[4 * c + 2], m(2), 8), fips_gf_mul(st[4 * c + 3], m(3), 8))])

\* _mm_aesenc_si128(a, round_key), the AESENC instruction: ShiftRows,
\* SubBytes, MixColumns, then the exclusive or with the round key
mm_aesenc_si128(a, round_key) ==
  Only({ XorBytes(fips_MixColumns(sb), round_key) :
           sb \in { fips_SubBytes(sr) : sr \in { fips_ShiftRows(x) : x \in {a} } } })
\* vaeseq_u8(data, key), the AESE instruction: the exclusive or with the key,
\* then ShiftRows and SubBytes
vaeseq_u8(data, key) ==
  Only({ fips_SubBytes(sr) : sr \in { fips_ShiftRows(XorBytes(x, key)) : x \in {data} } })
\* vaesmcq_u8(data), the AESMC instruction
vaesmcq_u8(data) == Only({ fips_MixColumns(x) : x \in {data} })
veorq_u8(a, b) == XorBytes(a, b)
vdupq_n_u8(v) == Fill(16, v)

\* aes_expand_x86: four AESENC with the key
aes_expand_x86(state, key) ==
  mm_aesenc_si128(mm_aesenc_si128(mm_aesenc_si128(mm_aesenc_si128(state, key), key), key), key)

\* one line "veorq_u8(vaesmcq_u8(vaeseq_u8(s, zero)), k)" of the ARM paths
arm_round(s, k) == veorq_u8(vaesmcq_u8(vaeseq_u8(s, vdupq_n_u8(0))), k)

\* aes_expand_arm
aes_expand_arm(state, key) ==
  arm_round(arm_round(arm_round(arm_round(state, key), key), key), key)

\* aes_compress_x86
aes_compress_x86(state, block) ==
  LET key0 == Slice(block, 0, 16)
      key1 == Slice(block, 16, 32)
      key2 == Slice(block, 32, 48)
      key3 == Slice(block, 48, 64)
      state_lo ==
        mm_aesenc_si128(mm_aesenc_si128(mm_aesenc_si128(mm_aesenc_si128(
          Slice(state, 0, 16), key0), key1), key2), key3)
      state_hi ==
        mm_aesenc_si128(mm_aesenc_si128(mm_aesenc_si128(mm_aesenc_si128(
          Slice(state, 16, 32), key2), key3), key0), key1)
  IN  After(<< state_lo, state_hi >>, Concat(state_lo, state_hi))

\* aes_compress_arm with the round key given to AESE, as in an AES
\* encryption, and not added after AESMC
aes_compress_arm_keyed(state, block) ==
  LET key0 == Slice(block, 0, 16)
      key1 == Slice(block, 16, 32)
      key2 == Slice(block, 32, 48)
      key3 == Slice(block, 48, 64)
      rnd(s, k) == vaesmcq_u8(vaeseq_u8(s, k))
      state_lo == rnd(rnd(rnd(rnd(Slice(state, 0, 16), key0), key1), key2), key3)
      state_hi == rnd(rnd(rnd(rnd(Slice(state, 16, 32), key2), key3), key0), key1)
  IN  After(<< state_lo, state_hi >>, Concat(state_lo, state_hi))

\* aes_compress_arm
aes_compress_arm(state, block) ==
  LET key0 == Slice(block, 0, 16)
      key1 == Slice(block, 16, 32)
      key2 == Slice(block, 32, 48)
      key3 == Slice(block, 48, 64)
      state_lo ==
        arm_round(arm_round(arm_round(arm_round(Slice(state, 0, 16), key0), key1), key2), key3)
      state_hi ==
        arm_round(arm_round(arm_round(arm_round(Slice(state, 16, 32), key2), key3), key0), key1)
  IN  After(<< state_lo, state_hi >>, Concat(state_lo, state_hi))

\* ------------------------------- tests.rs: the reference of the primitives
\* ref_aesenc_round: SubBytes, ShiftRows (s[1] = t[5], s[5] = t[9], ...),
\* MixColumns column by column, AddRoundKey
ref_aesenc_round(state, round_key) ==
  LET t == Force([i \in 0 .. 15 |-> SBOX[state[i]]])
      from == << 0, 5, 10, 15, 4, 9, 14, 3, 8, 13, 2, 7, 12, 1, 6, 11 >>
      s == Force([i \in 0 .. 15 |-> t[from[i + 1]]])
      col(i) ==
        << Xor4(gf_mul2(s[i]), gf_mul3(s[i + 1]), s[i + 2], s[i + 3]),
           Xor4(s[i], gf_mul2(s[i + 1]), gf_mul3(s[i + 2]), s[i + 3]),
           Xor4(s[i], s[i + 1], gf_mul2(s[i + 2]), gf_mul3(s[i + 3])),
           Xor4(gf_mul3(s[i]), s[i + 1], s[i + 2], gf_mul2(s[i + 3])) >>
      out == Force([j \in 0 .. 15 |-> col(4 * (j \div 4))[(j % 4) + 1]])
  IN  After(state, Force([i \in 0 .. 15 |-> Xor8(out[i], round_key[i])]))
ref_aes_expand(state, key) ==
  ref_aesenc_round(ref_aesenc_round(ref_aesenc_round(ref_aesenc_round(state, key), key), key), key)
ref_aes_compress(state, block) ==
  LET state_lo ==
        ref_aesenc_round(ref_aesenc_round(ref_aesenc_round(ref_aesenc_round(
          Slice(state, 0, 16), Slice(block, 0, 16)), Slice(block, 16, 32)),
          Slice(block, 32, 48)), Slice(block, 48, 64))
      state_hi ==
        ref_aesenc_round(ref_aesenc_round(ref_aesenc_round(ref_aesenc_round(
          Slice(state, 16, 32), Slice(block, 32, 48)), Slice(block, 48, 64)),
          Slice(block, 0, 16)), Slice(block, 16, 32))
  IN  After(<< state_lo, state_hi >>, Concat(state_lo, state_hi))

\* ------------------------------------------------------------------- u32
\* A u32 is <<low 16 bits, high 16 bits>>.
Xor16(a, b) == 256 * Xor8(a \div 256, b \div 256) + Xor8(a % 256, b % 256)
u32_from_le_bytes(b0, b1, b2, b3) == << b0 + 256 * b1, b2 + 256 * b3 >>
u32_from_be_bytes(b0, b1, b2, b3) == << b3 + 256 * b2, b1 + 256 * b0 >>
u32_to_le_bytes(w) ==
  Force([i \in 0 .. 3 |->
     CASE i = 0 -> w[1] % 256
       [] i = 1 -> w[1] \div 256
       [] i = 2 -> w[2] % 256
       [] OTHER -> w[2] \div 256])
u32_to_be_bytes(w) ==
  Force([i \in 0 .. 3 |->
     CASE i = 0 -> w[2] \div 256
       [] i = 1 -> w[2] % 256
       [] i = 2 -> w[1] \div 256
       [] OTHER -> w[1] % 256])
u32_wrapping_add(a, b) ==
  LET lo == a[1] + b[1]
      hi == a[2] + b[2] + (lo \div 65536)
  IN  << lo % 65536, hi % 65536 >>
u32_xor(a, b) == << Xor16(a[1], b[1]), Xor16(a[2], b[2]) >>
\* x.rotate_right(n), 0 < n <= 16
u32_rotate_right(x, n) ==
  IF n = 16 THEN << x[2], x[1] >>
  ELSE << (x[1] \div (2 ^ n)) + (x[2] % (2 ^ n)) * (2 ^ (16 - n)),
          (x[2] \div (2 ^ n)) + (x[1] % (2 ^ n)) * (2 ^ (16 - n)) >>

\* --------------------------------------------------- external crate calls
\* A deterministic mixing function of every byte of data, of its position and
\* of the length, standing for a cryptographic digest of 32 bytes.
RECURSIVE Absorb(_, _, _)
Absorb(data, lo, hi) ==
  IF hi <= lo THEN 0
  ELSE IF hi = lo + 1
       THEN ((data[lo] + 1) * (((lo + 1) * (lo + 1) * 251 + lo) % 65521)) % 65521
       ELSE LET mid == (lo + hi) \div 2
            IN  (Absorb(data, lo, mid) + Absorb(data, mid, hi)) % 65521
ExternDigest(tag, data) ==
  LET n == BLen(data)
      acc == (tag * 7919 + n * 257 + Absorb(data, 0, n)) % 65521
  IN  Force([i \in 0 .. 31 |->
         (((acc * (2 * i + 1) + i * i * 251 + tag) % 65521) \div 7) % 256])
\* blake3::hash / Blake3::new().update(..).finalize()
blake3_hash(data) == ExternDigest(1, data)
\* Sha256::digest
sha256_digest(data) == ExternDigest(2, data)
\* sha2::compress256(&mut hash_state, &[block]): 8 words and a block to 8 words
compress256(hash_state, msg_block) ==
  LET bytes == Force([i \in 0 .. 31 |-> u32_to_be_bytes(hash_state[i \div 4])[i % 4]])
      d == ExternDigest(3, Concat(bytes, msg_block))
  IN  Force([i \in 0 .. 7 |-> u32_from_be_bytes(d[4*i], d[4*i + 1], d[4*i + 2], d[4*i + 3])])

\* -------------------------------------------- primitives.rs: SHA-256, BLAKE3
\* one application of the SHA-256 compression function (software path)
sha256_compress(state, block) ==
  LET hash_state ==
        Force([i \in 0 .. 7 |->
           u32_from_be_bytes(state[4*i], state[4*i + 1], state[4*i + 2], state[4*i + 3])])
      out == compress256(hash_state, block)
  IN  After(out, Force([i \in 0 .. 31 |-> u32_to_be_bytes(out[i \div 4])[i % 4]]))

\* BLAKE3 IV, as u32 words
IV ==
  Force([i \in 0 .. 7 |->
     << << 58983, 27145 >>, << 44677, 47975 >>, << 62322, 15470 >>, << 62778, 42319 >>,
        << 21119, 20750 >>, << 26764, 39685 >>, << 55723, 8067 >>, << 52505, 23520 >> >>[i + 1]])

\* BLAKE3 message permutation schedule, MSG_SCHEDULE[r][k]
MSG_SCHEDULE ==
  Force([r \in 0 .. 6 |->
     Force([k \in 0 .. 15 |->
        << << 0, 1, 2, 3, 4, 5, 6, 7, 8, 9, 10, 11, 12, 13, 14, 15 >>,
           << 2, 6, 3, 10, 7, 0, 4, 13, 1, 11, 12, 5, 9, 14, 15, 8 >>,
           << 3, 4, 10, 12, 13, 2, 7, 14, 6, 5, 9, 0, 11, 15, 8, 1 >>,
           << 10, 7, 12, 9, 14, 3, 13, 15, 4, 0, 11, 2, 5, 8, 1, 6 >>,
           << 12, 13, 9, 11, 15, 10, 14, 8, 7, 2, 5, 3, 0, 1, 6, 4 >>,
           << 9, 14, 11, 5, 8, 12, 15, 1, 13, 3, 0, 10, 2, 6, 4, 7 >>,
           << 11, 15, 5, 0, 1, 9, 8, 6, 14, 10, 2, 12, 3, 4, 7, 13 >> >>[r + 1][k + 1]])])

\* BLAKE3 G mixing function on the 16-word matrix v
g(v, a, b, c, d, mx, my) ==
  LET a1 == u32_wrapping_add(u32_wrapping_add(v[a], v[b]), mx)
      d1 == u32_rotate_right(u32_xor(v[d], a1), 16)
      c1 == u32_wrapping_add(v[c], d1)
      b1 == u32_rotate_right(u32_xor(v[b], c1), 12)
      a2 == u32_wrapping_add(u32_wrapping_add(a1, b1), my)
      d2 == u32_rotate_right(u32_xor(d1, a2), 8)
      c2 == u32_wrapping_add(c1, d2)
      b2 == u32_rotate_right(u32_xor(b1, c2), 7)
  IN  [v EXCEPT ![a] = a2, ![b] = b2, ![c] = c2, ![d] = d2]

\* the (a, b, c, d) of the eight g calls of a round: four columns, four diagonals
G_INDEX ==
  << << 0, 4, 8, 12 >>, << 1, 5, 9, 13 >>, << 2, 6, 10, 14 >>, << 3, 7, 11, 15 >>,
     << 0, 5, 10, 15 >>, << 1, 6, 11, 12 >>, << 2, 7, 8, 13 >>, << 3, 4, 9, 14 >> >>

\* The 7 rounds of blake3_compress are 56 g calls in sequence; call j belongs
\* to round j \div 8, is call k = j % 8 of that round, and takes the message
\* words m[s[2k]] and m[s[2k+1]] of the round's schedule s.
blake3_g_call(v, m, j) ==
  g(v, G_INDEX[(j % 8) + 1][1], G_INDEX[(j % 8) + 1][2],
       G_INDEX[(j % 8) + 1][3], G_INDEX[(j % 8) + 1][4],
       m[MSG_SCHEDULE[j \div 8][2 * (j % 8)]],
       m[MSG_SCHEDULE[j \div 8][2 * (j % 8) + 1]])

\* the g calls lo .. hi-1, in order (the first half, then the second half)
RECURSIVE blake3_rounds(_, _, _, _)
blake3_rounds(v, m, lo, hi) ==
  IF Evaluated(v) /\ hi = lo + 1
  THEN blake3_g_call(v, m, lo)
  ELSE blake3_rounds(blake3_rounds(v, m, lo, (lo + hi) \div 2), m, (lo + hi) \div 2, hi)

\* n little-endian u32 words of a byte array
le_words(bytes, n) ==
  Force([i \in 0 .. (n - 1) |->
     u32_from_le_bytes(bytes[4*i], bytes[4*i + 1], bytes[4*i + 2], bytes[4*i + 3])])
\* the initial matrix of blake3_compress: v[0..8] = h, v[8..16] = IV
blake3_v0(h) == Force([i \in 0 .. 15 |-> IF i < 8 THEN h[i] ELSE IV[i - 8]])
\* the output of blake3_compress: v[i] ^ v[i + 8], as little-endian bytes
blake3_out(v) ==
  After(v, Force([i \in 0 .. 31 |-> u32_to_le_bytes(u32_xor(v[i \div 4], v[(i \div 4) + 8]))[i % 4]]))

\* BLAKE3 compression function (7 rounds)
blake3_compress(state, block) ==
  blake3_out(blake3_rounds(blake3_v0(le_words(state, 8)), le_words(block, 16), 0, 56))

\* ------------------------------------------------------------------ state
VARIABLES
  parallel,         \* cargo feature "parallel" of the build
  usize_bits,       \* width of usize on the target: 64, or 32 (wasm32)
  overflow_checks,  \* whether the build panics on integer overflow (debug profile)
  scratchpads,      \* UniversalHash.scratchpads: CHAINS byte arrays
  chain_states,     \* UniversalHash.chain_states: CHAINS arrays of 32 bytes
  effective_nonce,  \* UniversalHash.effective_nonce: u64
  pc,               \* position of the caller in hash()
  input,            \* the argument of the hash call in progress (or of the last one)
  calls,            \* hash calls begun on this hasher
  result,           \* value returned by this hash call (empty until it returns)
  cpc,              \* position of each chain's task
  chain_seeds,      \* the seed handed to fill_scratchpad_aes, per chain
  fill_i,           \* fill_scratchpad_aes: loop index i, per chain
  fill_state,       \* fill_scratchpad_aes: the local state, per chain
  round,            \* execute_rounds: loop index round, per chain
  initial_primitive,\* execute_rounds: the local initial_primitive, per chain
  written,          \* offsets of each scratchpad written since this hash call began
  rd_addr,          \* address of the last 64-byte read of each chain (-1: none yet)
  wr_addr,          \* address of the last 32-byte write-back of each chain (-1: none yet)
  prim_log,         \* primitive index applied in each round of this call, per chain
  fn_in,            \* argument of the function under test (function specifications)
  fn_out,           \* its value
  num_threads,      \* cmd_mine: number of worker threads
  mine_difficulty,  \* cmd_mine: difficulty, from the contract or the override
  no_submit,        \* cmd_mine: argument no_submit
  json,             \* cmd_mine: argument json
  stop,             \* cmd_mine: the AtomicBool stop
  found,            \* cmd_mine: the proof in the Mutex found (some = FALSE: None)
  found_lock,       \* the thread holding the Mutex found
  total_hashes,     \* cmd_mine: the AtomicU64 total_hashes
  timestamp,        \* cmd_mine: timestamp of the round
  mpc,              \* position of the main thread in cmd_mine
  spawned,          \* cmd_mine: threads spawned in this round (thread_id of the loop)
  joined,           \* cmd_mine: handles joined in this round
  proof_data,       \* cmd_mine: the local proof_data
  proofs_submitted, \* cmd_mine: the local proofs_submitted
  now,              \* the system clock (seconds since the epoch)
  w_pc,             \* position of each worker thread
  w_nonce,          \* worker: the local nonce
  w_result,         \* worker: the local result
  hashes,           \* the value of hash() on each input a worker can build
  mining_round,     \* rounds begun
  tried,            \* nonces each worker has hashed in this round, in order
  hashes_after_stop,\* hashes each worker has begun since stop was set in this round
  submitted,        \* proofs handed to client.submit_proof, in order
  app_mining,       \* demo: AppState.mining
  app_hash_count,   \* demo: AppState.hash_count
  app_start_time,   \* demo: AppState.start_time is Some
  cmd_pc,           \* demo: position of the command being handled
  cmd_result,       \* demo: what the last command returned
  d_pc,             \* demo: position of each thread start_mining has spawned
  d_nonce,          \* demo: the local nonce of each of these threads
  d_spawned,        \* demo: threads spawned so far
  d_added           \* demo: additions each thread has made to hash_count since
                    \* it was last set to 0

hasher == << scratchpads, chain_states, effective_nonce >>
build == << parallel, usize_bits, overflow_checks >>
locals == << cpc, chain_seeds, fill_i, fill_state, round, initial_primitive >>
ghost == << written, rd_addr, wr_addr, prim_log >>
fnvars == << fn_in, fn_out >>
core == << build, hasher, pc, input, calls, result, locals, ghost, fnvars >>
mine_args == << num_threads, mine_difficulty, no_submit, json >>
shared == << stop, found, found_lock, total_hashes >>
main_locals == << timestamp, spawned, joined, proof_data, proofs_submitted >>
workers == << w_pc, w_nonce, w_result >>
mine_ghost == << hashes, mining_round, tried, hashes_after_stop, submitted >>
miner == << mine_args, shared, main_locals, mpc, workers, mine_ghost, now >>
app_state == << app_mining, app_hash_count, app_start_time >>
demo == << app_state, cmd_pc, cmd_result, d_pc, d_nonce, d_spawned, d_added >>
vars == << core, miner, demo >>

\* ------------------------------------------------------- uhash.rs constants
\* 0x9E3779B97F4A7C15
GOLDEN_RATIO == u64_from_le_bytes(Bytes(<< 21, 124, 74, 127, 185, 121, 55, 158 >>))
\* 0x517cc1b727220a95
MIXING_CONSTANT == u64_from_le_bytes(Bytes(<< 149, 10, 34, 39, 183, 193, 124, 81 >>))

\* ---------------------------------------------------------- usize arithmetic
\* x as usize: the low usize_bits bits of a u64
as_usize(x) == Force([i \in 0 .. 63 |-> IF i < usize_bits THEN x[i] ELSE 0])
\* the bytes of a usize, little-endian
usize_bytes(x) == Slice(u64_to_le_bytes(x), 0, usize_bits \div 8)
\* A + c over the integers, for n little-endian bytes A and c < 256: the n low
\* bytes of the sum and the carry out of the top byte.  The carry reaches byte
\* k when byte 0 overflows and the bytes 1 .. k-1 are all 255.
AddLimbs(A, n, c) ==
  LET carry_into(k) == IF A[0] + c >= 256 /\ \A j \in 1 .. (k - 1) : A[j] = 255
                       THEN 1 ELSE 0
  IN  [bytes |-> Force([k \in 0 .. (n - 1) |->
                    IF k = 0 THEN (A[0] + c) % 256 ELSE (A[k] + carry_into(k)) % 256]),
       carry |-> carry_into(n)]
\* the number of n <= 8 little-endian bytes, mod 3: as 256 = 1 (mod 3), the
\* sum of the bytes mod 3
Mod3Limbs(A, n) ==
  ( (IF n > 0 THEN A[0] ELSE 0) + (IF n > 1 THEN A[1] ELSE 0)
  + (IF n > 2 THEN A[2] ELSE 0) + (IF n > 3 THEN A[3] ELSE 0)
  + (IF n > 4 THEN A[4] ELSE 0) + (IF n > 5 THEN A[5] ELSE 0)
  + (IF n > 6 THEN A[6] ELSE 0) + (IF n > 7 THEN A[7] ELSE 0) ) % 3
\* (x & mask) for a usize x and a mask below 2^30, as an integer
usize_and(x, mask) ==
  LET b == u64_to_le_bytes(x)
  IN  After(b,
        And8(b[0], mask % 256)
        + 256 * And8(b[1], (mask \div 256) % 256)
        + 65536 * And8(b[2], (mask \div 65536) % 256)
        + 16777216 * And8(b[3], (mask \div 16777216) % 256))

\* ------------------------------------------------------------------ uhash.rs
\* extract_nonce reading the first 8 bytes instead of the last 8 (seeded fault)
extract_nonce_first8(in) ==
  IF BLen(in) >= 8
  THEN u64_from_le_bytes(Slice(in, 0, 8))
  ELSE u64_from_le_bytes(Slice(blake3_hash(in), 0, 8))

\* Extract nonce from input (last 8 bytes, or hash if shorter)
extract_nonce(in) ==
  IF BLen(in) >= 8
  THEN u64_from_le_bytes(Slice(in, BLen(in) - 8, BLen(in)))
  ELSE u64_from_le_bytes(Slice(blake3_hash(in), 0, 8))

\* input.len().saturating_sub(8)
header_len(in) == IF BLen(in) >= 8 THEN BLen(in) - 8 ELSE 0

\* the seed without the per-chain offset (seeded fault)
chain_seed_no_offset(in, nonce, chain) ==
  blake3_hash(Concat(Slice(in, 0, header_len(in)), u64_to_le_bytes(nonce)))

\* init_scratchpads: the BLAKE3 hash of header || (nonce ^ chain * GOLDEN_RATIO)
chain_seed(in, nonce, chain) ==
  LET offset == u64_wrapping_mul(u64_of_nat(chain), GOLDEN_RATIO)
      modified_nonce == u64_xor(nonce, offset)
  IN  blake3_hash(Concat(Slice(in, 0, header_len(in)), u64_to_le_bytes(modified_nonce)))

\* execute_rounds: ((nonce as usize) + chain) % 3.  The sum is a usize
\* addition: on overflow a build with overflow checks panics, any other wraps.
compute_initial_primitive(nonce, chain) ==
  LET n == usize_bits \div 8
      sum == AddLimbs(usize_bytes(as_usize(nonce)), n, chain)
  IN  After(sum, [panic |-> sum.carry # 0 /\ overflow_checks,
                  value |-> Mod3Limbs(sum.bytes, n)])

\* compute_address with a mask one bit too wide (seeded fault)
compute_address_wide_mask(state, rnd) ==
  LET state_lo == u64_from_le_bytes(Slice(state, 0, 8))
      state_hi == u64_from_le_bytes(Slice(state, 8, 16))
      round_u64 == u64_of_nat(rnd)
      mixed == u64_xor(u64_xor(state_lo, state_hi),
                       u64_xor(u64_rotate_left(round_u64, 13),
                               u64_wrapping_mul(round_u64, MIXING_CONSTANT)))
  IN  After(mixed, usize_and(as_usize(mixed), 2 * ADDRESS_MASK + 1) * BLOCK_SIZE)

\* Compute scratchpad address from state
compute_address(state, rnd) ==
  LET state_lo == u64_from_le_bytes(Slice(state, 0, 8))
      state_hi == u64_from_le_bytes(Slice(state, 8, 16))
      round_u64 == u64_of_nat(rnd)
      mixed == u64_xor(u64_xor(state_lo, state_hi),
                       u64_xor(u64_rotate_left(round_u64, 13),
                               u64_wrapping_mul(round_u64, MIXING_CONSTANT)))
  IN  After(mixed, usize_and(as_usize(mixed), ADDRESS_MASK) * BLOCK_SIZE)

\* fill_scratchpad_aes: the locals before the loop
fill_key(seed) == Slice(seed, 0, 16)
fill_state0(seed) == Slice(seed, 16, 32)

\* an iteration that carries the second expansion to the next one
fill_block_carry_second(scratchpad, key, state, i) ==
  LET state1 == aes_expand_block(state, key)
      offset == i * BLOCK_SIZE
      state2 == aes_expand_block(state1, key)
      s1 == CopyInto(scratchpad, offset, state1)
      s2 == CopyInto(s1, offset + 16, state2)
      s3 == CopyInto(s2, offset + 32, state1)
      s4 == CopyInto(s3, offset + 48, state2)
  IN  After(<< state1, state2 >>,
        [scratchpad |-> s4, state |-> state2, wrote |-> offset .. (offset + 63)])

\* an iteration that writes the second expansion before the first
fill_block_swapped_halves(scratchpad, key, state, i) ==
  LET state1 == aes_expand_block(state, key)
      offset == i * BLOCK_SIZE
      state2 == aes_expand_block(state1, key)
      s1 == CopyInto(scratchpad, offset, state2)
      s2 == CopyInto(s1, offset + 16, state1)
      s3 == CopyInto(s2, offset + 32, state2)
      s4 == CopyInto(s3, offset + 48, state1)
  IN  After(<< state1, state2 >>,
        [scratchpad |-> s4, state |-> state1, wrote |-> offset .. (offset + 63)])

\* fill_scratchpad_aes: one iteration of the loop, for block i
fill_block(scratchpad, key, state, i) ==
  LET state1 == aes_expand_block(state, key)
      offset == i * BLOCK_SIZE
      state2 == aes_expand_block(state1, key)
      s1 == CopyInto(scratchpad, offset, state1)
      s2 == CopyInto(s1, offset + 16, state2)
      s3 == CopyInto(s2, offset + 32, state1)
      s4 == CopyInto(s3, offset + 48, state2)
  IN  After(<< state1, state2 >>,
        [scratchpad |-> s4, state |-> state1, wrote |-> offset .. (offset + 63)])

\* the loop ending one block early (seeded fault)
fill_done_early(i) == i >= BLOCKS_PER_SCRATCHPAD - 1

\* fill_scratchpad_aes: the loop "for i in 0..BLOCKS_PER_SCRATCHPAD" is over
fill_done(i) == i >= BLOCKS_PER_SCRATCHPAD
\* fill_scratchpad_aes: iterations i .. BLOCKS_PER_SCRATCHPAD - 1
RECURSIVE fill_from(_, _, _, _)
fill_from(scratchpad, key, state, i) ==
  IF Evaluated(scratchpad) /\ fill_done(i) THEN scratchpad
  ELSE LET it == fill_block(scratchpad, key, state, i)
       IN  fill_from(it.scratchpad, key, it.state, i + 1)
\* Fill a scratchpad using AES-based expansion
fill_scratchpad_aes(scratchpad, seed) ==
  fill_from(scratchpad, fill_key(seed), fill_state0(seed), 0)

\* the primitives with AES and SHA-256 exchanged (seeded fault)
apply_primitive_swapped(p, state, block) ==
  CASE p = 0 -> sha256_compress(state, block)
    [] p = 1 -> aes_compress(state, block)
    [] OTHER -> blake3_compress(state, block)

\* the primitive of index p applied to (state, block)
apply_primitive(p, state, block) ==
  CASE p = 0 -> aes_compress(state, block)
    [] p = 1 -> sha256_compress(state, block)
    [] OTHER -> blake3_compress(state, block)

\* the round step writing the new state to the second half of the block
\* (seeded fault)
round_step_write_high(scratchpad, state, init_prim, rnd) ==
  LET addr == compute_address(state, rnd)
      oob == addr < 0 \/ addr + BLOCK_SIZE > BLen(scratchpad)
      block == Slice(scratchpad, addr, addr + BLOCK_SIZE)
      primitive == (init_prim + rnd + 1) % 3
      new_state == apply_primitive(primitive, state, block)
  IN  IF Evaluated(addr) /\ oob
      THEN [oob |-> TRUE, scratchpad |-> scratchpad, state |-> state,
            read_addr |-> addr, write_addr |-> addr, primitive |-> primitive]
      ELSE After(<< block, new_state >>,
             [oob |-> FALSE, scratchpad |-> CopyInto(scratchpad, addr + 32, new_state),
              state |-> new_state,
              read_addr |-> addr, write_addr |-> addr, primitive |-> primitive])

\* Single round step for one chain.  The read and the write are unchecked
\* pointer accesses: outside the scratchpad they are undefined behaviour (oob).
round_step_spec_compliant(scratchpad, state, init_prim, rnd) ==
  LET addr == compute_address(state, rnd)
      oob == addr < 0 \/ addr + BLOCK_SIZE > BLen(scratchpad)
      block == Slice(scratchpad, addr, addr + BLOCK_SIZE)
      primitive == (init_prim + rnd + 1) % 3
      new_state == apply_primitive(primitive, state, block)
  IN  IF Evaluated(addr) /\ oob
      THEN [oob |-> TRUE, scratchpad |-> scratchpad, state |-> state,
            read_addr |-> addr, write_addr |-> addr, primitive |-> primitive]
      ELSE After(<< block, new_state >>,
             [oob |-> FALSE, scratchpad |-> CopyInto(scratchpad, addr, new_state),
              state |-> new_state,
              read_addr |-> addr, write_addr |-> addr, primitive |-> primitive])

\* XOR of the chain states 0 .. c-1
RECURSIVE combine(_, _)
combine(states, c) ==
  IF c = 0 THEN Fill(32, 0) ELSE XorBytes(combine(states, c - 1), states[c - 1])
\* finalize hashing with BLAKE3 first and SHA-256 second (seeded fault)
finalize_blake3_first(states) == sha256_digest(blake3_hash(combine(states, CHAINS)))
\* Finalize: BLAKE3(SHA256(XOR of all chain states))
finalize(states) == blake3_hash(sha256_digest(combine(states, CHAINS)))

\* execute_rounds: rounds rnd .. ROUNDS - 1 of one chain, on its scratchpad and
\* state rs
RECURSIVE rounds_from(_, _, _)
rounds_from(rs, init_prim, rnd) ==
  IF Evaluated(rs) /\ rnd >= ROUNDS THEN rs
  ELSE rounds_from(round_step_spec_compliant(rs.scratchpad, rs.state, init_prim, rnd),
                   init_prim, rnd + 1)

\* The state of chain c when hash(in) on a new hasher of the sequential build
\* reaches finalize: the seed, the fill of the zeroed scratchpad, the rounds.
sequential_chain(in, c) ==
  Only({ Only({ Only({
    rounds_from([scratchpad |-> filled, state |-> seed],
                compute_initial_primitive(nonce, c).value, 0).state :
      filled \in {fill_scratchpad_aes(Fill(SCRATCHPAD_SIZE, 0), seed)} }) :
      seed \in {chain_seed(in, nonce, c)} }) :
      nonce \in {extract_nonce(in)} })
sequential_states(in) == Force([c \in Chain |-> sequential_chain(in, c)])

\* Convenience function for single-shot hashing: a new hasher, one hash call
hash(in) ==
  Only({ finalize(states) : states \in {sequential_states(in)} })

\* ------------------------------------------------- uhash.rs: meets_difficulty
\* u8::leading_zeros
u8_leading_zeros(b) ==
  IF b >= 128 THEN 0
  ELSE IF b >= 64 THEN 1
  ELSE IF b >= 32 THEN 2
  ELSE IF b >= 16 THEN 3
  ELSE IF b >= 8 THEN 4
  ELSE IF b >= 4 THEN 5
  ELSE IF b >= 2 THEN 6
  ELSE IF b >= 1 THEN 7
  ELSE 8

\* the loop of meets_difficulty going on after a non-zero byte (seeded fault)
RECURSIVE count_zero_bits_no_break(_, _, _)
count_zero_bits_no_break(h, i, zero_bits) ==
  IF Evaluated(zero_bits) /\ i >= BLen(h)
  THEN zero_bits
  ELSE count_zero_bits_no_break(h, i + 1, zero_bits + u8_leading_zeros(h[i]))

\* meets_difficulty: the loop "for byte in hash.iter()" from byte i on, with
\* zero_bits counted so far (a u32; it never exceeds 8 * 32)
RECURSIVE count_zero_bits(_, _, _)
count_zero_bits(h, i, zero_bits) ==
  IF Evaluated(zero_bits) /\ i >= BLen(h)
  THEN zero_bits
  ELSE IF h[i] = 0
       THEN count_zero_bits(h, i + 1, zero_bits + 8)
       ELSE zero_bits + u8_leading_zeros(h[i])

\* meets_difficulty asking for exactly the difficulty (seeded fault)
meets_difficulty_exact(h, difficulty) ==
  count_zero_bits(h, 0, 0) = difficulty

\* meets_difficulty asking for more than the difficulty (seeded fault)
meets_difficulty_strict(h, difficulty) ==
  count_zero_bits(h, 0, 0) > difficulty

\* meets_difficulty
meets_difficulty(h, difficulty) ==
  count_zero_bits(h, 0, 0) >= difficulty

\* ------------------------------------------------------------------ inputs
\* The byte strings handed to hash(): three bytes (shorter than 8 bytes),
\* exactly 8 bytes (the nonce 2^64 - 1, no header), and a header byte followed
\* by the nonce 2^63 + 85.
Inputs ==
  { Bytes(<< 1, 2, 3 >>),
    Fill(8, 255),
    Bytes(<< 7, 85, 0, 0, 0, 0, 0, 0, 128 >>) }

NoAddr == 0 - 1

\* ------------------------------------------------------------- construction
\* ---------------------------------------------------- cli main.rs: cmd_mine
\* bounds of the miner: worker threads, nonces a round can try, rounds
MaxThreads == 2
MaxNonce == 4
MaxMinerRounds == 2

Worker == 0 .. (MaxThreads - 1)
NoThread == 0 - 1
MainThread == MaxThreads
\* None::<FoundProof>
NoProof == [some |-> FALSE, hash |-> Empty, nonce |-> 0, timestamp |-> 0]
\* the timestamp of the first round (seconds), and those a later round can get
FirstTimestamp == 1000
\* the clock is followed up to MaxNow; a round begun by then can begin 2 s later
MaxNow == FirstTimestamp + MaxMinerRounds - 1
Timestamps == FirstTimestamp .. (MaxNow + 2)

\* cmd_mine not entered yet
MinerIdle ==
  /\ num_threads = 0
  /\ mine_difficulty = 0
  /\ no_submit = FALSE
  /\ json = FALSE
  /\ stop = FALSE
  /\ found = NoProof
  /\ found_lock = NoThread
  /\ total_hashes = 0
  /\ timestamp = 0
  /\ mpc = "start"
  /\ spawned = 0
  /\ joined = 0
  /\ proof_data = NoProof
  /\ proofs_submitted = 0
  /\ now = FirstTimestamp
  /\ w_pc = [t \in Worker |-> "unspawned"]
  /\ w_nonce = [t \in Worker |-> 0]
  /\ w_result = [t \in Worker |-> Empty]
  /\ hashes = << >>
  /\ mining_round = 0
  /\ tried = [t \in Worker |-> << >>]
  /\ hashes_after_stop = [t \in Worker |-> 0]
  /\ submitted = << >>

\* ------------------------------------------------- demo src-tauri lib.rs
\* bounds of the demo: threads start_mining can spawn, hashes of one thread
MaxDemoThreads == 3
MaxDemoHashes == 2

DemoThread == 0 .. (MaxDemoThreads - 1)

\* AppState::new, no command handled yet
DemoIdle ==
  /\ app_mining = FALSE
  /\ app_hash_count = 0
  /\ app_start_time = FALSE
  /\ cmd_pc = "idle"
  /\ cmd_result = "none"
  /\ d_pc = [k \in DemoThread |-> "unspawned"]
  /\ d_nonce = [k \in DemoThread |-> 0]
  /\ d_spawned = 0
  /\ d_added = [k \in DemoThread |-> 0]

\* UniversalHash::new: the hasher, with no hash call made on it yet
NewHasher ==
  /\ scratchpads = [c \in Chain |-> Fill(SCRATCHPAD_SIZE, 0)]
  /\ chain_states = [c \in Chain |-> Fill(32, 0)]
  /\ effective_nonce = ZeroU64
  /\ pc = "idle"
  /\ input = Empty
  /\ calls = 0
  /\ result = Empty
  /\ cpc = [c \in Chain |-> "idle"]
  /\ chain_seeds = [c \in Chain |-> Fill(32, 0)]
  /\ fill_i = [c \in Chain |-> 0]
  /\ fill_state = [c \in Chain |-> Fill(16, 0)]
  /\ round = [c \in Chain |-> 0]
  /\ initial_primitive = [c \in Chain |-> 0]
  /\ written = [c \in Chain |-> {}]
  /\ rd_addr = [c \in Chain |-> NoAddr]
  /\ wr_addr = [c \in Chain |-> NoAddr]
  /\ prim_log = [c \in Chain |-> << >>]

\* UniversalHash::new, on any build
Init ==
  /\ parallel \in BOOLEAN
  /\ usize_bits \in {32, 64}
  /\ overflow_checks \in BOOLEAN
  /\ NewHasher
  /\ fn_in = Empty
  /\ fn_out = Empty
  /\ MinerIdle
  /\ DemoIdle

\* ------------------------------------------------------------------- hash()
\* hash() keeping, on a hasher used before, the effective nonce of the earlier
\* call (seeded fault)
HashCall_stale_nonce(in) ==
  /\ pc = "idle"
  /\ calls < MaxCalls
  /\ input' = in
  /\ calls' = calls + 1
  /\ effective_nonce' = IF calls = 0 THEN extract_nonce(in) ELSE effective_nonce
  /\ pc' = "init_scratchpads"
  /\ cpc' = [c \in Chain |-> "idle"]
  /\ chain_seeds' = [c \in Chain |-> Fill(32, 0)]
  /\ fill_i' = [c \in Chain |-> 0]
  /\ fill_state' = [c \in Chain |-> Fill(16, 0)]
  /\ round' = [c \in Chain |-> 0]
  /\ initial_primitive' = [c \in Chain |-> 0]
  /\ written' = [c \in Chain |-> {}]
  /\ rd_addr' = [c \in Chain |-> NoAddr]
  /\ wr_addr' = [c \in Chain |-> NoAddr]
  /\ prim_log' = [c \in Chain |-> << >>]
  /\ result' = Empty
  /\ UNCHANGED << build, scratchpads, chain_states, fnvars, miner, demo >>

\* hash(): the call and the extraction of the effective nonce
HashCall(in) ==
  /\ pc = "idle"
  /\ calls < MaxCalls
  /\ input' = in
  /\ calls' = calls + 1
  /\ effective_nonce' = extract_nonce(in)
  /\ pc' = "init_scratchpads"
  /\ cpc' = [c \in Chain |-> "idle"]
  /\ chain_seeds' = [c \in Chain |-> Fill(32, 0)]
  /\ fill_i' = [c \in Chain |-> 0]
  /\ fill_state' = [c \in Chain |-> Fill(16, 0)]
  /\ round' = [c \in Chain |-> 0]
  /\ initial_primitive' = [c \in Chain |-> 0]
  /\ written' = [c \in Chain |-> {}]
  /\ rd_addr' = [c \in Chain |-> NoAddr]
  /\ wr_addr' = [c \in Chain |-> NoAddr]
  /\ prim_log' = [c \in Chain |-> << >>]
  /\ result' = Empty
  /\ UNCHANGED << build, scratchpads, chain_states, fnvars, miner, demo >>

\* the parallel seed loop giving every chain the seed of chain 0 (seeded fault)
InitSeedsPar_one_seed ==
  /\ pc = "init_scratchpads"
  /\ parallel
  /\ \A c \in Chain : cpc[c] = "idle"
  /\ \E seeds \in {[c \in Chain |-> chain_seed(input, effective_nonce, 0)]} :
       /\ chain_seeds' = seeds
       /\ chain_states' = seeds
       /\ fill_state' = [c \in Chain |-> fill_state0(seeds[c])]
  /\ fill_i' = [c \in Chain |-> 0]
  /\ cpc' = [c \in Chain |-> "fill"]
  /\ UNCHANGED << build, scratchpads, effective_nonce, pc, input, calls, result,
                  round, initial_primitive, ghost, fnvars, miner, demo >>

\* init_scratchpads (parallel): the loop that derives every chain's seed and
\* state, before the scratchpads are filled in parallel
InitSeedsPar ==
  /\ pc = "init_scratchpads"
  /\ parallel
  /\ \A c \in Chain : cpc[c] = "idle"
  /\ \E seeds \in {[c \in Chain |-> chain_seed(input, effective_nonce, c)]} :
       /\ chain_seeds' = seeds
       /\ chain_states' = seeds
       /\ fill_state' = [c \in Chain |-> fill_state0(seeds[c])]
  /\ fill_i' = [c \in Chain |-> 0]
  /\ cpc' = [c \in Chain |-> "fill"]
  /\ UNCHANGED << build, scratchpads, effective_nonce, pc, input, calls, result,
                  round, initial_primitive, ghost, fnvars, miner, demo >>

\* init_scratchpads (sequential): chain c's seed and state, once the chains
\* before it are filled
InitChainSeq(c) ==
  /\ pc = "init_scratchpads"
  /\ ~parallel
  /\ cpc[c] = "idle"
  /\ \A d \in Chain : d < c => cpc[d] = "filled"
  /\ \E seed \in {chain_seed(input, effective_nonce, c)} :
       /\ chain_seeds' = [chain_seeds EXCEPT ![c] = seed]
       /\ chain_states' = [chain_states EXCEPT ![c] = seed]
       /\ fill_state' = [fill_state EXCEPT ![c] = fill_state0(seed)]
  /\ fill_i' = [fill_i EXCEPT ![c] = 0]
  /\ cpc' = [cpc EXCEPT ![c] = "fill"]
  /\ UNCHANGED << build, scratchpads, effective_nonce, pc, input, calls, result,
                  round, initial_primitive, ghost, fnvars, miner, demo >>

\* the fill of every chain going to the scratchpad of chain 0 (seeded fault)
FillBlock_shared(c) ==
  /\ pc = "init_scratchpads"
  /\ cpc[c] = "fill"
  /\ \E it \in {fill_block(scratchpads[0], fill_key(chain_seeds[c]), fill_state[c], fill_i[c])} :
         /\ scratchpads' = [scratchpads EXCEPT ![0] = it.scratchpad]
         /\ fill_state' = [fill_state EXCEPT ![c] = it.state]
         /\ written' = [written EXCEPT ![c] = @ \cup it.wrote]
  /\ fill_i' = [fill_i EXCEPT ![c] = @ + 1]
  /\ cpc' = [cpc EXCEPT ![c] = IF fill_done(fill_i[c] + 1) THEN "filled" ELSE "fill"]
  /\ UNCHANGED << build, chain_states, effective_nonce, pc, input, calls, result,
                  chain_seeds, round, initial_primitive, rd_addr, wr_addr, prim_log,
                  fnvars, miner, demo >>

\* fill_scratchpad_aes on chain c's scratchpad: one iteration of its loop
FillBlock(c) ==
  /\ pc = "init_scratchpads"
  /\ cpc[c] = "fill"
  /\ \E it \in {fill_block(scratchpads[c], fill_key(chain_seeds[c]), fill_state[c], fill_i[c])} :
         /\ scratchpads' = [scratchpads EXCEPT ![c] = it.scratchpad]
         /\ fill_state' = [fill_state EXCEPT ![c] = it.state]
         /\ written' = [written EXCEPT ![c] = @ \cup it.wrote]
  /\ fill_i' = [fill_i EXCEPT ![c] = @ + 1]
  /\ cpc' = [cpc EXCEPT ![c] = IF fill_done(fill_i[c] + 1) THEN "filled" ELSE "fill"]
  /\ UNCHANGED << build, chain_states, effective_nonce, pc, input, calls, result,
                  chain_seeds, round, initial_primitive, rd_addr, wr_addr, prim_log,
                  fnvars, miner, demo >>

\* init_scratchpads returns: every scratchpad is filled
InitDone ==
  /\ pc = "init_scratchpads"
  /\ \A c \in Chain : cpc[c] = "filled"
  /\ pc' = "execute_rounds"
  /\ UNCHANGED << build, hasher, input, calls, result, locals, ghost, fnvars, miner, demo >>

\* execute_rounds: chain c's task may run (in the sequential build, after the
\* chains before it)
MayRun(c) ==
  /\ pc = "execute_rounds"
  /\ parallel \/ \A d \in Chain : d < c => cpc[d] = "done"

\* the initial primitive of chain c: computed when its task starts
InitialPrimitiveOf(c) ==
  IF cpc[c] = "filled"
  THEN compute_initial_primitive(effective_nonce, c)
  ELSE [panic |-> FALSE, value |-> initial_primitive[c]]

\* execute_rounds: one round of chain c (with, before its first round, the
\* computation of its initial primitive)
RoundStep(c) ==
  /\ MayRun(c)
  /\ cpc[c] \in {"filled", "rounds"}
  /\ ~InitialPrimitiveOf(c).panic
  /\ \E ip \in {InitialPrimitiveOf(c).value} :
     \E rs \in {round_step_spec_compliant(scratchpads[c], chain_states[c], ip, round[c])} :
         /\ initial_primitive' = [initial_primitive EXCEPT ![c] = ip]
         /\ rd_addr' = [rd_addr EXCEPT ![c] = rs.read_addr]
         /\ wr_addr' = [wr_addr EXCEPT ![c] = rs.write_addr]
         /\ prim_log' = [prim_log EXCEPT ![c] = Append(@, rs.primitive)]
         /\ IF rs.oob
            THEN /\ pc' = "undefined"
                 /\ UNCHANGED << scratchpads, chain_states, round, cpc >>
            ELSE /\ scratchpads' = [scratchpads EXCEPT ![c] = rs.scratchpad]
                 /\ chain_states' = [chain_states EXCEPT ![c] = rs.state]
                 /\ round' = [round EXCEPT ![c] = @ + 1]
                 /\ cpc' = [cpc EXCEPT ![c] = IF round[c] + 1 >= ROUNDS
                                               THEN "done" ELSE "rounds"]
                 /\ pc' = pc
  /\ UNCHANGED << build, effective_nonce, input, calls, result, chain_seeds,
                  fill_i, fill_state, written, fnvars, miner, demo >>

\* execute_rounds: (nonce as usize) + chain overflows in a build that checks
OverflowPanic(c) ==
  /\ MayRun(c)
  /\ cpc[c] = "filled"
  /\ InitialPrimitiveOf(c).panic
  /\ cpc' = [cpc EXCEPT ![c] = "panicked"]
  /\ UNCHANGED << build, hasher, pc, input, calls, result, chain_seeds, fill_i,
                  fill_state, round, initial_primitive, ghost, fnvars, miner, demo >>

\* the panic of a chain's task unwinds hash(): at once in the sequential
\* build, once the other tasks have ended in the parallel one
PanicJoin ==
  /\ pc = "execute_rounds"
  /\ \E c \in Chain : cpc[c] = "panicked"
  /\ parallel => \A c \in Chain : cpc[c] \in {"done", "panicked"}
  /\ pc' = "panicked"
  /\ UNCHANGED << build, hasher, input, calls, result, locals, ghost, fnvars, miner, demo >>

\* finalize, and the return of hash()
Finalize ==
  /\ pc = "execute_rounds"
  /\ \A c \in Chain : cpc[c] = "done"
  /\ result' = finalize(chain_states)
  /\ pc' = "idle"
  /\ UNCHANGED << build, hasher, input, calls, locals, ghost, fnvars, miner, demo >>

Next ==
  \/ \E in \in Inputs : HashCall(in)
  \/ InitSeedsPar
  \/ \E c \in Chain : InitChainSeq(c)
  \/ \E c \in Chain : FillBlock(c)
  \/ InitDone
  \/ \E c \in Chain : RoundStep(c)
  \/ \E c \in Chain : OverflowPanic(c)
  \/ PanicJoin
  \/ Finalize

Spec == Init /\ [][Next]_vars

\* the values of pc and cpc
TypeOK ==
  /\ pc \in {"idle", "init_scratchpads", "execute_rounds", "panicked", "undefined"}
  /\ \A c \in Chain : cpc[c] \in {"idle", "fill", "filled", "rounds", "done", "panicked"}

\* ------------------------------------------------ calls of meets_difficulty
\* a 32-byte hash of k zero bytes, the byte b, and the byte t in the rest
LeadHash(k, b, t) ==
  Force([i \in 0 .. 31 |-> IF i < k THEN 0 ELSE IF i = k THEN b ELSE t])

\* The hashes handed to meets_difficulty: 0, 1, 2 or 31 zero bytes before a
\* non-zero byte, and the hash of 32 zero bytes
Hashes ==
  {LeadHash(k, b, t) : k \in {0, 1, 2, 31}, b \in {1, 15, 128, 255}, t \in {0, 255}}
    \cup {Fill(32, 0)}

\* The difficulties handed to meets_difficulty (any u32 is accepted)
Difficulties == {0, 1, 4, 5, 7, 8, 9, 12, 15, 16, 20, 21, 248, 255, 256, 257, 1000}

\* a hash and two difficulties, meets_difficulty not called yet
DifficultyInit ==
  /\ parallel = FALSE
  /\ usize_bits = 64
  /\ overflow_checks = FALSE
  /\ NewHasher
  /\ fn_in \in [hash : Hashes, d1 : Difficulties, d2 : Difficulties]
  /\ fn_out = [done |-> FALSE, r1 |-> FALSE, r2 |-> FALSE]
  /\ MinerIdle
  /\ DemoIdle

\* meets_difficulty called on the hash with each of the two difficulties
MeetsDifficultyCall ==
  /\ ~fn_out.done
  /\ fn_out' = [done |-> TRUE,
                r1 |-> meets_difficulty(fn_in.hash, fn_in.d1),
                r2 |-> meets_difficulty(fn_in.hash, fn_in.d2)]
  /\ UNCHANGED << build, hasher, pc, input, calls, result, locals, ghost, fn_in, miner, demo >>

DifficultyNext == MeetsDifficultyCall

DifficultySpec == DifficultyInit /\ [][DifficultyNext]_vars

\* ------------------------------------- primitives.rs: the AES primitives
\* the number of byte patterns the states and the blocks are drawn from
MaxAesPattern == 2

\* n bytes that start at 53 * b and go up by 37 * a + 1
AesPattern(n, a, b) == Force([i \in 0 .. (n - 1) |-> ((37 * a + 1) * i + 53 * b) % 256])

\* the 32-byte states handed to aes_compress (the low 16 bytes to
\* aes_expand_block)
AesStates ==
  { AesPattern(32, a, b) : a \in 0 .. MaxAesPattern, b \in 0 .. MaxAesPattern }
    \cup {Fill(32, 0), Fill(32, 255)}
\* the 64-byte blocks handed to aes_compress (the low 16 bytes, as the key, to
\* aes_expand_block)
AesBlocks ==
  { AesPattern(64, a, b) : a \in 1 .. MaxAesPattern, b \in 0 .. MaxAesPattern }
    \cup {Fill(64, 0), Fill(64, 255)}

\* a state and a block, no primitive called yet
AesInit ==
  /\ parallel = FALSE
  /\ usize_bits = 64
  /\ overflow_checks = FALSE
  /\ NewHasher
  /\ fn_in \in [state : AesStates, block : AesBlocks]
  /\ fn_out = [done |-> FALSE]
  /\ MinerIdle
  /\ DemoIdle

\* aes_compress and aes_expand_block called on the state and the block, on
\* each of the three builds
AesCall ==
  /\ fn_out = [done |-> FALSE]
  /\ \E st \in {Slice(fn_in.state, 0, 16)}, key \in {Slice(fn_in.block, 0, 16)} :
       fn_out' = [done |-> TRUE,
                  compress_x86 |-> aes_compress_x86(fn_in.state, fn_in.block),
                  compress_arm |-> aes_compress_arm(fn_in.state, fn_in.block),
                  compress_soft |-> aes_compress(fn_in.state, fn_in.block),
                  expand_x86 |-> aes_expand_x86(st, key),
                  expand_arm |-> aes_expand_arm(st, key),
                  expand_soft |-> aes_expand_block(st, key),
                  round_arm |-> arm_round(st, key)]
  /\ UNCHANGED << build, hasher, pc, input, calls, result, locals, ghost, fn_in, miner, demo >>

AesNext == AesCall

AesSpec == AesInit /\ [][AesNext]_vars

\* ---------------------------------------------------- cli main.rs: cmd_mine
\* the seed of the epoch (the fallback when the contract gives none)
epoch_seed == Fill(32, 0)
\* address.as_bytes(): the miner's address ("b1")
address_bytes == Bytes(<< 98, 49 >>)
\* the difficulties the contract or the override can give
MineDifficulties == {1, 2}

\* the input a worker builds: seed || address || timestamp_le || nonce_le
mining_input(ts, n) ==
  Concat(Concat(Concat(epoch_seed, address_bytes), u64_to_le_bytes(u64_of_nat(ts))),
         u64_to_le_bytes(u64_of_nat(n)))

\* hex::encode: two lower-case hexadecimal digits (ASCII) for each byte
hex_digit(n) == IF n < 10 THEN 48 + n ELSE 87 + n
hex_encode(bytes) ==
  Force([i \in 0 .. (2 * BLen(bytes) - 1) |->
           hex_digit(IF i % 2 = 0 THEN bytes[i \div 2] \div 16 ELSE bytes[i \div 2] % 16)])

\* hasher.hash(&input) of a worker, for every input a worker can build: the
\* value depends on the input only, so it is computed once
hash_of_inputs ==
  Force([ts \in Timestamps |->
    Force([n \in 0 .. (MaxNonce - 1) |->
      Only({hash(x) : x \in {mining_input(ts, n)}})])])

\* cmd_mine up to the loop: the arguments, the difficulty, the seed, the
\* number of threads, the shared state
M_Setup ==
  /\ mpc = "start"
  /\ hashes' = hash_of_inputs
  /\ num_threads' \in 0 .. MaxThreads
  /\ mine_difficulty' \in MineDifficulties
  /\ no_submit' \in BOOLEAN
  /\ json' \in BOOLEAN
  /\ stop' = FALSE
  /\ found' = NoProof
  /\ total_hashes' = 0
  /\ mpc' = "reset"
  /\ UNCHANGED << core, demo, now, found_lock, main_locals, workers, mining_round, tried,
                  hashes_after_stop, submitted >>

\* the round loop: "Reset for new round" and the timestamp of the round
M_Reset ==
  /\ mpc = "reset"
  /\ mining_round < MaxMinerRounds
  /\ found_lock = NoThread
  /\ stop' = FALSE
  /\ found' = NoProof
  /\ total_hashes' = 0
  /\ timestamp' = now
  /\ spawned' = 0
  /\ joined' = 0
  /\ mining_round' = mining_round + 1
  /\ tried' = [t \in Worker |-> << >>]
  /\ hashes_after_stop' = [t \in Worker |-> 0]
  /\ mpc' = IF num_threads > 0 THEN "spawn"
            ELSE IF json THEN "take" ELSE "monitor"
  /\ UNCHANGED << core, demo, mine_args, now, found_lock, proof_data, proofs_submitted,
                  workers, hashes, submitted >>

\* "for thread_id in 0..num_threads": the next worker thread is spawned
M_Spawn ==
  /\ mpc = "spawn"
  /\ spawned < num_threads
  /\ w_pc' = [w_pc EXCEPT ![spawned] = "load_stop"]
  /\ w_nonce' = [w_nonce EXCEPT ![spawned] = spawned]
  /\ w_result' = [w_result EXCEPT ![spawned] = Empty]
  /\ spawned' = spawned + 1
  /\ mpc' = IF spawned + 1 < num_threads THEN "spawn"
            ELSE IF json THEN "join" ELSE "monitor"
  /\ UNCHANGED << core, demo, mine_args, shared, timestamp, joined, proof_data,
                  proofs_submitted, mine_ghost, now >>

\* the progress loop (without json), its last turn: after the sleep of 2 s, stop
\* is seen set and the loop is left. (A turn that sees stop clear changes
\* nothing but the clock and the terminal.)
M_Monitor ==
  /\ mpc = "monitor"
  /\ stop
  /\ now' = now + 2
  /\ mpc' = IF num_threads > 0 THEN "join" ELSE "take"
  /\ UNCHANGED << core, demo, mine_args, shared, main_locals, workers, mine_ghost >>

\* a main thread that goes past a handle without waiting for its thread
M_Join_no_wait ==
  /\ mpc = "join"
  /\ joined < num_threads
  /\ w_pc' = IF w_pc[joined] = "exited" THEN [w_pc EXCEPT ![joined] = "joined"] ELSE w_pc
  /\ joined' = joined + 1
  /\ mpc' = IF joined + 1 < num_threads THEN "join" ELSE "take"
  /\ UNCHANGED << core, demo, mine_args, now, shared, timestamp, spawned, proof_data,
                  proofs_submitted, w_nonce, w_result, mine_ghost >>

\* "for handle in handles": the next handle is joined once its thread has ended
M_Join ==
  /\ mpc = "join"
  /\ joined < num_threads
  /\ w_pc[joined] = "exited"
  /\ w_pc' = [w_pc EXCEPT ![joined] = "joined"]
  /\ joined' = joined + 1
  /\ mpc' = IF joined + 1 < num_threads THEN "join" ELSE "take"
  /\ UNCHANGED << core, demo, mine_args, now, shared, timestamp, spawned, proof_data,
                  proofs_submitted, w_nonce, w_result, mine_ghost >>

\* found.lock().unwrap().take(), and the branch on the proof
M_Take ==
  /\ mpc = "take"
  /\ found_lock = NoThread
  /\ proof_data' = found
  /\ found' = NoProof
  /\ mpc' = IF found.some /\ ~no_submit THEN "submit" ELSE "done"
  /\ UNCHANGED << core, demo, mine_args, now, stop, found_lock, total_hashes, timestamp,
                  spawned, joined, proofs_submitted, workers, mine_ghost >>

\* client.submit_proof(submission, ..), which returns Ok or Err: on Ok
\* proofs_submitted += 1; in both cases the loop goes on
M_Submit ==
  /\ mpc = "submit"
  /\ \E ok \in BOOLEAN :
       /\ submitted' = Append(submitted, [hash |-> hex_encode(proof_data.hash),
                                          nonce |-> proof_data.nonce,
                                          timestamp |-> proof_data.timestamp,
                                          miner_address |-> address_bytes,
                                          accepted |-> ok])
       /\ proofs_submitted' = IF ok THEN proofs_submitted + 1 ELSE proofs_submitted
  /\ mpc' = "reset"
  /\ UNCHANGED << core, demo, mine_args, now, shared, timestamp, spawned, joined, proof_data,
                  workers, hashes, mining_round, tried, hashes_after_stop >>

\* a worker that goes on to hash whatever the flag says
W_LoadStop_ignore(t) ==
  /\ w_pc[t] = "load_stop"
  /\ w_nonce[t] < MaxNonce
  /\ w_pc' = [w_pc EXCEPT ![t] = "hash"]
  /\ UNCHANGED << core, demo, mine_args, now, shared, main_locals, mpc, w_nonce, w_result,
                  mine_ghost >>

\* worker: "while !stop.load(Ordering::Relaxed)". The loads and stores of the
\* flag are interleaved in one order (the value loaded is the last one stored).
\* A worker whose next nonce is MaxNonce or more goes on only once the flag is
\* set.
W_LoadStop(t) ==
  /\ w_pc[t] = "load_stop"
  /\ stop \/ w_nonce[t] < MaxNonce
  /\ w_pc' = [w_pc EXCEPT ![t] = IF stop THEN "exited" ELSE "hash"]
  /\ UNCHANGED << core, demo, mine_args, now, shared, main_locals, mpc, w_nonce, w_result,
                  mine_ghost >>

\* a worker that counts a hash only when it goes on to the next nonce
W_Hash_count_misses(t) ==
  /\ w_pc[t] = "hash"
  /\ w_nonce[t] < MaxNonce
  /\ \E r \in {hashes[timestamp][w_nonce[t]]} :
       /\ w_result' = [w_result EXCEPT ![t] = r]
       /\ IF meets_difficulty(r, mine_difficulty)
          THEN /\ w_pc' = [w_pc EXCEPT ![t] = "lock"]
               /\ w_nonce' = w_nonce
               /\ total_hashes' = total_hashes
          ELSE /\ w_pc' = [w_pc EXCEPT ![t] = "load_stop"]
               /\ w_nonce' = [w_nonce EXCEPT ![t] = @ + num_threads]
               /\ total_hashes' = total_hashes + 1
  /\ tried' = [tried EXCEPT ![t] = Append(@, w_nonce[t])]
  /\ hashes_after_stop' = [hashes_after_stop EXCEPT ![t] = IF stop THEN @ + 1 ELSE @]
  /\ UNCHANGED << core, demo, mine_args, now, stop, found, found_lock, main_locals, mpc,
                  hashes, mining_round, submitted >>

\* a worker that sets the stop flag as soon as its hash meets the difficulty,
\* before it has the mutex
W_Hash_stop_first(t) ==
  /\ w_pc[t] = "hash"
  /\ w_nonce[t] < MaxNonce
  /\ \E r \in {hashes[timestamp][w_nonce[t]]} :
       /\ w_result' = [w_result EXCEPT ![t] = r]
       /\ IF meets_difficulty(r, mine_difficulty)
          THEN /\ w_pc' = [w_pc EXCEPT ![t] = "lock"]
               /\ w_nonce' = w_nonce
               /\ stop' = TRUE
          ELSE /\ w_pc' = [w_pc EXCEPT ![t] = "load_stop"]
               /\ w_nonce' = [w_nonce EXCEPT ![t] = @ + num_threads]
               /\ stop' = stop
  /\ total_hashes' = total_hashes + 1
  /\ tried' = [tried EXCEPT ![t] = Append(@, w_nonce[t])]
  /\ hashes_after_stop' = [hashes_after_stop EXCEPT ![t] = IF stop THEN @ + 1 ELSE @]
  /\ UNCHANGED << core, demo, mine_args, now, found, found_lock, main_locals, mpc,
                  hashes, mining_round, submitted >>

\* a worker that steps its nonce by one, whatever the number of threads
W_Hash_step_one(t) ==
  /\ w_pc[t] = "hash"
  /\ w_nonce[t] < MaxNonce
  /\ \E r \in {hashes[timestamp][w_nonce[t]]} :
       /\ w_result' = [w_result EXCEPT ![t] = r]
       /\ IF meets_difficulty(r, mine_difficulty)
          THEN /\ w_pc' = [w_pc EXCEPT ![t] = "lock"]
               /\ w_nonce' = w_nonce
          ELSE /\ w_pc' = [w_pc EXCEPT ![t] = "load_stop"]
               /\ w_nonce' = [w_nonce EXCEPT ![t] = @ + 1]
  /\ total_hashes' = total_hashes + 1
  /\ tried' = [tried EXCEPT ![t] = Append(@, w_nonce[t])]
  /\ hashes_after_stop' = [hashes_after_stop EXCEPT ![t] = IF stop THEN @ + 1 ELSE @]
  /\ UNCHANGED << core, demo, mine_args, now, stop, found, found_lock, main_locals, mpc,
                  hashes, mining_round, submitted >>

\* worker: the input, hasher.hash(&input), total_hashes.fetch_add(1), the test
\* of meets_difficulty and, when it fails, "nonce += num_threads as u64"
W_Hash(t) ==
  /\ w_pc[t] = "hash"
  /\ w_nonce[t] < MaxNonce
  /\ \E r \in {hashes[timestamp][w_nonce[t]]} :
       /\ w_result' = [w_result EXCEPT ![t] = r]
       /\ IF meets_difficulty(r, mine_difficulty)
          THEN /\ w_pc' = [w_pc EXCEPT ![t] = "lock"]
               /\ w_nonce' = w_nonce
          ELSE /\ w_pc' = [w_pc EXCEPT ![t] = "load_stop"]
               /\ w_nonce' = [w_nonce EXCEPT ![t] = @ + num_threads]
  /\ total_hashes' = total_hashes + 1
  /\ tried' = [tried EXCEPT ![t] = Append(@, w_nonce[t])]
  /\ hashes_after_stop' = [hashes_after_stop EXCEPT ![t] = IF stop THEN @ + 1 ELSE @]
  /\ UNCHANGED << core, demo, mine_args, now, stop, found, found_lock, main_locals, mpc,
                  hashes, mining_round, submitted >>

\* a worker that stores the nonce it would try next with the hash it found
W_Lock_next_nonce(t) ==
  /\ w_pc[t] = "lock"
  /\ found_lock = NoThread
  /\ IF ~found.some
     THEN /\ found' = [some |-> TRUE, hash |-> w_result[t],
                       nonce |-> w_nonce[t] + num_threads, timestamp |-> timestamp]
          /\ found_lock' = t
          /\ w_pc' = [w_pc EXCEPT ![t] = "store_stop"]
     ELSE /\ w_pc' = [w_pc EXCEPT ![t] = "exited"]
          /\ UNCHANGED << found, found_lock >>
  /\ UNCHANGED << core, demo, mine_args, now, stop, total_hashes, main_locals, mpc, w_nonce,
                  w_result, mine_ghost >>

\* a worker that stores its proof without looking at the slot
W_Lock_overwrite(t) ==
  /\ w_pc[t] = "lock"
  /\ found_lock = NoThread
  /\ found' = [some |-> TRUE, hash |-> w_result[t], nonce |-> w_nonce[t],
               timestamp |-> timestamp]
  /\ found_lock' = t
  /\ w_pc' = [w_pc EXCEPT ![t] = "store_stop"]
  /\ UNCHANGED << core, demo, mine_args, now, stop, total_hashes, main_locals, mpc, w_nonce,
                  w_result, mine_ghost >>

\* worker: found.lock().unwrap(), and the proof stored if the slot is empty;
\* if it is not, the worker returns (and the guard is dropped)
W_Lock(t) ==
  /\ w_pc[t] = "lock"
  /\ found_lock = NoThread
  /\ IF ~found.some
     THEN /\ found' = [some |-> TRUE, hash |-> w_result[t], nonce |-> w_nonce[t],
                       timestamp |-> timestamp]
          /\ found_lock' = t
          /\ w_pc' = [w_pc EXCEPT ![t] = "store_stop"]
     ELSE /\ w_pc' = [w_pc EXCEPT ![t] = "exited"]
          /\ UNCHANGED << found, found_lock >>
  /\ UNCHANGED << core, demo, mine_args, now, stop, total_hashes, main_locals, mpc, w_nonce,
                  w_result, mine_ghost >>

\* worker: stop.store(true, Ordering::SeqCst), then the return (and the guard
\* is dropped)
W_StoreStop(t) ==
  /\ w_pc[t] = "store_stop"
  /\ stop' = TRUE
  /\ found_lock' = NoThread
  /\ w_pc' = [w_pc EXCEPT ![t] = "exited"]
  /\ UNCHANGED << core, demo, mine_args, now, found, total_hashes, main_locals, mpc, w_nonce,
                  w_result, mine_ghost >>

\* time passes while cmd_mine runs: the clock reaches the next second
TimePasses ==
  /\ mpc \notin {"start", "done"}
  /\ now < MaxNow
  /\ now' = now + 1
  /\ UNCHANGED << core, demo, mine_args, shared, main_locals, mpc, workers, mine_ghost >>

\* cmd_mine, on the release build of the command line tool
MinerInit ==
  /\ parallel = TRUE
  /\ usize_bits = 64
  /\ overflow_checks = FALSE
  /\ NewHasher
  /\ fn_in = Empty
  /\ fn_out = Empty
  /\ MinerIdle
  /\ DemoIdle

MinerNext ==
  \/ M_Setup
  \/ M_Reset
  \/ M_Spawn
  \/ M_Monitor
  \/ M_Join
  \/ M_Take
  \/ M_Submit
  \/ TimePasses
  \/ \E t \in Worker : W_LoadStop(t)
  \/ \E t \in Worker : W_Hash(t)
  \/ \E t \in Worker : W_Lock(t)
  \/ \E t \in Worker : W_StoreStop(t)

MinerSpec == MinerInit /\ [][MinerNext]_vars

\* a worker thread that can take a step does take one: the operating system
\* schedules every thread that is ready to run
WorkerStep(t) == W_LoadStop(t) \/ W_Hash(t) \/ W_Lock(t) \/ W_StoreStop(t)
MinerFairSpec == MinerSpec /\ \A t \in Worker : WF_vars(WorkerStep(t))

\* ------------------------------------------------- demo src-tauri lib.rs
\* The commands are handled one at a time; the threads start_mining has
\* spawned run between the steps of a command.

\* start_mining: "if state.mining.load(SeqCst)" and the return of the error
StartMining_Load ==
  /\ cmd_pc = "idle"
  /\ d_spawned < MaxDemoThreads
  /\ IF app_mining
     THEN cmd_pc' = "idle" /\ cmd_result' = "already_mining"
     ELSE cmd_pc' = "store_mining" /\ cmd_result' = "none"
  /\ UNCHANGED << core, miner, app_state, d_pc, d_nonce, d_spawned, d_added >>

\* start_mining: state.mining.store(true, SeqCst)
StartMining_StoreMining ==
  /\ cmd_pc = "store_mining"
  /\ app_mining' = TRUE
  /\ cmd_pc' = "store_count"
  /\ UNCHANGED << core, miner, app_hash_count, app_start_time, cmd_result, d_pc,
                  d_nonce, d_spawned, d_added >>

\* start_mining: state.hash_count.store(0, SeqCst)
StartMining_StoreCount ==
  /\ cmd_pc = "store_count"
  /\ app_hash_count' = 0
  /\ d_added' = [k \in DemoThread |-> 0]
  /\ cmd_pc' = "spawn"
  /\ UNCHANGED << core, miner, app_mining, app_start_time, cmd_result, d_pc, d_nonce,
                  d_spawned >>

\* start_mining: the start time, std::thread::spawn and the return
StartMining_Spawn ==
  /\ cmd_pc = "spawn"
  /\ app_start_time' = TRUE
  /\ d_pc' = [d_pc EXCEPT ![d_spawned] = "load_mining"]
  /\ d_nonce' = [d_nonce EXCEPT ![d_spawned] = 0]
  /\ d_spawned' = d_spawned + 1
  /\ cmd_pc' = "idle"
  /\ cmd_result' = "success"
  /\ UNCHANGED << core, miner, app_mining, app_hash_count, d_added >>

\* stop_mining: state.mining.store(false, SeqCst) and the return of the totals
StopMining ==
  /\ cmd_pc = "idle"
  /\ app_mining' = FALSE
  /\ cmd_result' = "stopped"
  /\ UNCHANGED << core, miner, app_hash_count, app_start_time, cmd_pc, d_pc, d_nonce,
                  d_spawned, d_added >>

\* the spawned thread: "while state_clone.mining.load(SeqCst)". A thread that
\* has made MaxDemoHashes hashes goes on only once mining is false.
D_LoadMining(k) ==
  /\ d_pc[k] = "load_mining"
  /\ ~app_mining \/ d_nonce[k] < MaxDemoHashes
  /\ d_pc' = [d_pc EXCEPT ![k] = IF app_mining THEN "hash" ELSE "exited"]
  /\ UNCHANGED << core, miner, app_state, cmd_pc, cmd_result, d_nonce, d_spawned, d_added >>

\* the spawned thread: hasher.hash (the value is dropped), nonce += 1,
\* hash_count.fetch_add(1, SeqCst)
D_Hash(k) ==
  /\ d_pc[k] = "hash"
  /\ d_nonce' = [d_nonce EXCEPT ![k] = @ + 1]
  /\ app_hash_count' = app_hash_count + 1
  /\ d_added' = [d_added EXCEPT ![k] = @ + 1]
  /\ d_pc' = [d_pc EXCEPT ![k] = "load_mining"]
  /\ UNCHANGED << core, miner, app_mining, app_start_time, cmd_pc, cmd_result, d_spawned >>

\* the demo, on the release build
DemoInit ==
  /\ parallel = TRUE
  /\ usize_bits = 64
  /\ overflow_checks = FALSE
  /\ NewHasher
  /\ fn_in = Empty
  /\ fn_out = Empty
  /\ MinerIdle
  /\ DemoIdle

DemoNext ==
  \/ StartMining_Load
  \/ StartMining_StoreMining
  \/ StartMining_StoreCount
  \/ StartMining_Spawn
  \/ StopMining
  \/ \E k \in DemoThread : D_LoadMining(k)
  \/ \E k \in DemoThread : D_Hash(k)

DemoSpec == DemoInit /\ [][DemoNext]_vars

\* ====================================================================== C1
\* C1: every address that round_step reads its block from and writes its state
\* to is block_index * BLOCK_SIZE with 0 <= block_index < BLOCKS_PER_SCRATCHPAD,
\* so it lies in [0, SCRATCHPAD_SIZE - BLOCK_SIZE]; no access leaves the
\* scratchpad.
AddressInBounds ==
  /\ pc # "undefined"
  /\ \A c \in Chain : \A a \in {rd_addr[c], wr_addr[c]} :
       a # NoAddr =>
         /\ a % BLOCK_SIZE = 0
         /\ a \div BLOCK_SIZE >= 0
         /\ a \div BLOCK_SIZE < BLOCKS_PER_SCRATCHPAD
         /\ a >= 0
         /\ a <= SCRATCHPAD_SIZE - BLOCK_SIZE

\* a round has read and written the last block of its scratchpad
LastBlockAddressed ==
  \E c \in Chain :
    /\ rd_addr[c] = SCRATCHPAD_SIZE - BLOCK_SIZE
    /\ wr_addr[c] = SCRATCHPAD_SIZE - BLOCK_SIZE

\* ====================================================================== C2
\* C2: a round step of chain c changes, in chain c's scratchpad, only the 32
\* bytes [addr, addr+32), addr being compute_address of the state and round
\* before the step; those bytes become the new chain state; the bytes
\* [addr+32, addr+64) and every other byte of every scratchpad stay as they were.
RoundStepFrame ==
  [][\A c \in Chain :
       round'[c] = round[c] + 1 =>
         \A addr \in {compute_address(chain_states[c], round[c])} :
           /\ wr_addr'[c] = addr
           /\ DOMAIN scratchpads'[c] = DOMAIN scratchpads[c]
           /\ \A i \in DOMAIN scratchpads[c] :
                scratchpads'[c][i] =
                  IF i >= addr /\ i < addr + 32
                  THEN chain_states'[c][i - addr]
                  ELSE scratchpads[c][i]
           /\ \A d \in Chain \ {c} : scratchpads'[d] = scratchpads[d]]_vars

\* after two rounds a chain holds its state in the first half of block 1, and
\* the second half of that block still holds what the fill wrote there
RoundWroteState ==
  \E c \in Chain :
    /\ round[c] = 2
    /\ wr_addr[c] = BLOCK_SIZE
    /\ Slice(scratchpads[c], BLOCK_SIZE, BLOCK_SIZE + 32) = chain_states[c]
    /\ Slice(scratchpads[c], BLOCK_SIZE + 32, 2 * BLOCK_SIZE) =
         Slice(fill_scratchpad_aes(scratchpads[c], chain_seeds[c]),
               BLOCK_SIZE + 32, 2 * BLOCK_SIZE)

\* ====================================================================== C3
\* C3: in the fill and in the rounds, a step of chain c leaves the scratchpad
\* and the state of every other chain as they were, and what it writes is
\* computed from chain c's own scratchpad, seed and state alone.
ChainIsolation ==
  [][\A c \in Chain :
       /\ fill_i'[c] = fill_i[c] + 1 =>
            /\ \A d \in Chain \ {c} :
                 scratchpads'[d] = scratchpads[d] /\ chain_states'[d] = chain_states[d]
            /\ chain_states'[c] = chain_states[c]
            /\ scratchpads'[c] =
                 fill_block(scratchpads[c], fill_key(chain_seeds[c]),
                            fill_state[c], fill_i[c]).scratchpad
       /\ round'[c] = round[c] + 1 =>
            /\ \A d \in Chain \ {c} :
                 scratchpads'[d] = scratchpads[d] /\ chain_states'[d] = chain_states[d]
            /\ \A rs \in {round_step_spec_compliant(scratchpads[c], chain_states[c],
                                                    initial_primitive'[c], round[c])} :
                 scratchpads'[c] = rs.scratchpad /\ chain_states'[c] = rs.state]_vars

\* two chains of the parallel build are both part-way through their rounds
TwoChainsInRounds ==
  /\ parallel
  /\ \E c \in Chain : \E d \in Chain \ {c} :
       /\ cpc[c] = "rounds" /\ round[c] = 1
       /\ cpc[d] = "rounds" /\ round[d] = 2

\* ====================================================================== C4
\* C4: however the chains of the parallel build interleave, when all of them
\* are done the four chain states are those of the sequential path on the same
\* input, and the hash returned is the hash of the sequential path.
ParallelMatchesSequential ==
  (parallel /\ calls > 0 /\ pc \in {"execute_rounds", "idle"}
     /\ \A c \in Chain : cpc[c] = "done") =>
    \A ref \in {sequential_states(input)} :
      /\ chain_states = ref
      /\ pc = "idle" => result = finalize(ref)

\* the parallel build has returned the hash of the 9-byte input
ParallelReturned ==
  /\ parallel
  /\ pc = "idle"
  /\ calls = 1
  /\ BLen(input) = 9
  /\ BLen(result) = 32

\* ====================================================================== C5
\* C5: every hash call on a reused hasher returns what hash() returns for the
\* same input on a new hasher, whatever the earlier calls left behind: during
\* a call the effective nonce is the one of the call's input, and when the
\* rounds start the chain states and the scratchpads are those a new hasher
\* has for this input.
ReuseMatchesFresh ==
  /\ (pc = "idle" /\ calls >= 1) => result = hash(input)
  /\ pc \in {"init_scratchpads", "execute_rounds"} =>
       effective_nonce = extract_nonce(input)
  /\ (pc = "execute_rounds" /\ \A c \in Chain : cpc[c] = "filled") =>
       \A c \in Chain :
         \A seed \in {chain_seed(input, extract_nonce(input), c)} :
           /\ chain_states[c] = seed
           /\ scratchpads[c] = fill_scratchpad_aes(Fill(SCRATCHPAD_SIZE, 0), seed)

\* the second call on one hasher has returned
SecondCallReturned ==
  /\ ~parallel
  /\ pc = "idle"
  /\ calls = 2
  /\ BLen(result) = 32

\* ====================================================================== C6
\* C6: before the first round of a chain reads, fill_scratchpad_aes has written
\* every byte of that chain's scratchpad in this hash call, from this call's
\* seed; no round reads a byte left by an earlier call.
FilledBeforeRead ==
  /\ \A c \in Chain :
       /\ cpc[c] \in {"filled", "rounds", "done"} =>
            written[c] = 0 .. (SCRATCHPAD_SIZE - 1)
       /\ rd_addr[c] # NoAddr =>
            (rd_addr[c] .. (rd_addr[c] + BLOCK_SIZE - 1)) \subseteq written[c]
  /\ (pc = "execute_rounds" /\ \A c \in Chain : cpc[c] = "filled") =>
       \A c \in Chain :
         scratchpads[c] =
           fill_scratchpad_aes(Fill(SCRATCHPAD_SIZE, 1),
                               chain_seed(input, extract_nonce(input), c))

\* in the second call on a hasher, a chain has made its first read
FirstReadOfSecondCall ==
  \E c \in Chain :
    /\ calls = 2
    /\ round[c] = 1
    /\ rd_addr[c] # NoAddr

\* ====================================================================== C7
\* C7: round r of a chain applies the primitive of index
\* (initial_primitive + r + 1) mod 3, where 0 is AES, 1 is SHA-256 and 2 is
\* BLAKE3; round 0 applies (initial_primitive + 1) mod 3; any three consecutive
\* rounds apply each primitive once.
PrimitiveRotation ==
  [][\A c \in Chain :
       round'[c] = round[c] + 1 =>
         \A r \in {round[c]} :
         \A p \in {(initial_primitive'[c] + r + 1) % 3} :
         \A addr \in {compute_address(chain_states[c], r)} :
         \A block \in {Slice(scratchpads[c], addr, addr + BLOCK_SIZE)} :
           /\ prim_log'[c] = Append(prim_log[c], p)
           /\ chain_states'[c] =
                CASE p = 0 -> aes_compress(chain_states[c], block)
                  [] p = 1 -> sha256_compress(chain_states[c], block)
                  [] OTHER -> blake3_compress(chain_states[c], block)
           /\ r = 0 => prim_log'[c] = << (initial_primitive'[c] + 1) % 3 >>
           /\ r >= 2 =>
                {prim_log'[c][r - 1], prim_log'[c][r], prim_log'[c][r + 1]} = {0, 1, 2}]_vars

\* a chain whose initial primitive is 0 has applied SHA-256, BLAKE3 and AES
ThreeRoundsRotated ==
  \E c \in Chain :
    /\ initial_primitive[c] = 0
    /\ prim_log[c] = << 1, 2, 0 >>

\* ====================================================================== C8
\* C8: for every u64 nonce N, those from 2^64 - 3 up included, and every chain
\* c, the initial primitive of the chain is (N + c) mod 3 computed over the
\* integers, and computing it does not fault.
InitialPrimitiveIsIntegerResidue ==
  \A c \in Chain :
    /\ cpc[c] # "panicked"
    /\ cpc[c] \in {"rounds", "done"} =>
         initial_primitive[c] =
           (Mod3Limbs(u64_to_le_bytes(effective_nonce), 8) + c) % 3

\* ====================================================================== C9
\* C9: for an input of 8 bytes or more the nonce is the little-endian u64 of
\* its last 8 bytes and the header is the input without them; for a shorter
\* input the header is empty and the nonce is the little-endian u64 of the
\* first 8 bytes of BLAKE3(input).
NonceExtraction ==
  calls > 0 =>
    \A n \in {BLen(input)} :
      /\ n >= 8 =>
           /\ \A i \in 0 .. 63 :
                effective_nonce[i] = (input[n - 8 + (i \div 8)] \div (2 ^ (i % 8))) % 2
           /\ header_len(input) = n - 8
      /\ n < 8 =>
           /\ \A i \in 0 .. 63 :
                effective_nonce[i] = (blake3_hash(input)[i \div 8] \div (2 ^ (i % 8))) % 2
           /\ header_len(input) = 0

\* a hash call on an input shorter than 8 bytes has taken its nonce
ShortInputNonce ==
  /\ calls > 0
  /\ BLen(input) < 8
  /\ pc = "init_scratchpads"

\* ====================================================================== C10
\* C10: the state of chain c after init_scratchpads, and the seed its
\* scratchpad is filled from, are BLAKE3(header || LE64(nonce XOR
\* (c * GOLDEN_RATIO mod 2^64))), in the parallel and in the sequential build.
SeedDerivation ==
  \A c \in Chain :
    cpc[c] \in {"fill", "filled"} =>
      LET offsets == << << 0, 0, 0, 0, 0, 0, 0, 0 >>,
                        << 21, 124, 74, 127, 185, 121, 55, 158 >>,
                        << 42, 248, 148, 254, 114, 243, 110, 60 >>,
                        << 63, 116, 223, 125, 44, 109, 166, 218 >> >>
          n == BLen(input)
          header == [k \in 0 .. ((IF n >= 8 THEN n - 8 ELSE 0) - 1) |-> input[k]]
          nonce_bytes == [k \in 0 .. 7 |->
                            Xor8(u64_to_le_bytes(effective_nonce)[k], offsets[c + 1][k + 1])]
      IN  \A expected \in {blake3_hash(Concat(header, nonce_bytes))} :
            chain_seeds[c] = expected /\ chain_states[c] = expected

\* chain 3 of the sequential build is being filled from its seed
LastChainSeeded ==
  /\ ~parallel
  /\ cpc[3] = "fill"
  /\ fill_i[3] = 1
  /\ BLen(input) = 9

\* ===================================================================== C11
\* C11: the value hash returns is BLAKE3(SHA-256(combined)), combined being the
\* bytewise XOR of the four chain states as they are once every chain has done
\* its ROUNDS rounds; finalize changes neither chain states nor scratchpads.
FinalizeOutput ==
  [][(pc = "execute_rounds" /\ pc' = "idle") =>
       /\ \A c \in Chain : round[c] = ROUNDS
       /\ result' =
            blake3_hash(sha256_digest(
              [i \in 0 .. 31 |->
                 Xor8(Xor8(chain_states[0][i], chain_states[1][i]),
                      Xor8(chain_states[2][i], chain_states[3][i]))]))
       /\ chain_states' = chain_states
       /\ scratchpads' = scratchpads]_vars

\* finalize has returned the hash of a call on the 32-bit sequential build
FinalizeReturned ==
  /\ pc = "idle"
  /\ calls = 1
  /\ ~parallel
  /\ usize_bits = 32
  /\ BLen(result) = 32
  /\ \A c \in Chain : round[c] = ROUNDS

\* ===================================================================== C15
\* C15: hash is total: whatever the input length and the nonce, no chain's
\* task faults, and a call that has returned has returned 32 bytes after
\* BLOCKS_PER_SCRATCHPAD fill iterations and ROUNDS rounds of every chain.
HashIsTotal ==
  /\ pc \notin {"panicked", "undefined"}
  /\ \A c \in Chain : cpc[c] # "panicked"
  /\ (pc = "idle" /\ calls >= 1) =>
       /\ BLen(result) = 32
       /\ \A c \in Chain : fill_i[c] = BLOCKS_PER_SCRATCHPAD /\ round[c] = ROUNDS

\* ===================================================================== C12
\* C12: meets_difficulty(h, d) is true exactly when the first d bits of h, read
\* as a big-endian bit string of 256 bits, exist and are all zero; a hash of k
\* zero bytes followed by a non-zero byte b meets the difficulty
\* 8 * k + leading_zeros(b) and fails the next one.
DifficultyIsLeadingZeroBits ==
  fn_out.done =>
    LET h == fn_in.hash
        d == fn_in.d1
        bit(i) == (h[i \div 8] \div (2 ^ (7 - (i % 8)))) % 2
        lz(b) == CHOOSE n \in 0 .. 7 : 2 ^ (7 - n) <= b /\ b < 2 ^ (8 - n)
    IN  /\ fn_out.r1 = (\A i \in 0 .. (d - 1) : i < 256 /\ bit(i) = 0)
        /\ \A k \in 0 .. 31 :
             ((\A j \in 0 .. (k - 1) : h[j] = 0) /\ h[k] # 0) =>
               /\ d = 8 * k + lz(h[k]) => fn_out.r1
               /\ d = 8 * k + lz(h[k]) + 1 => ~fn_out.r1

\* the hash 00 00 0F FF .. FF has been found to meet the difficulty 20
TwentyZeroBitsMet ==
  /\ fn_out.done
  /\ fn_in.hash = LeadHash(2, 15, 255)
  /\ fn_in.d1 = 20
  /\ fn_out.r1

\* ===================================================================== C13
\* C13: for d1 <= d2, a hash that meets the difficulty d2 meets d1.
DifficultyMonotonic ==
  (fn_out.done /\ fn_in.d1 <= fn_in.d2 /\ fn_out.r2) => fn_out.r1

\* a hash has met a difficulty and a lower, non-zero one
HarderAndEasierMet ==
  /\ fn_out.done
  /\ 0 < fn_in.d1
  /\ fn_in.d1 < fn_in.d2
  /\ fn_out.r2
  /\ fn_out.r1

\* ===================================================================== C14
\* C14 as stated: every hash meets the difficulty 0 and no hash meets 256.
ZeroAlwaysMet256NeverMet ==
  fn_out.done =>
    /\ fn_in.d1 = 0 => fn_out.r1
    /\ fn_in.d1 = 256 => ~fn_out.r1

\* C14 as amended: every hash meets the difficulty 0; the difficulty 256 is met
\* by the hash of 32 zero bytes and by no other hash; no hash meets a
\* difficulty above 256.
ZeroAlwaysMet256OnlyByZeroHash ==
  fn_out.done =>
    /\ fn_in.d1 = 0 => fn_out.r1
    /\ fn_in.d1 = 256 => (fn_out.r1 <=> \A i \in 0 .. 31 : fn_in.hash[i] = 0)
    /\ fn_in.d1 > 256 => ~fn_out.r1

\* the hash of 32 zero bytes has been found to meet the difficulty 256
ZeroHashMeets256 ==
  /\ fn_out.done
  /\ fn_in.d1 = 256
  /\ \A i \in 0 .. 31 : fn_in.hash[i] = 0
  /\ fn_out.r1

\* ===================================================================== C16
\* C16: in a round with T = num_threads workers, the nonces worker t has hashed
\* are t, t + T, t + 2T, ... in that order (so each is congruent to t modulo
\* T), and no nonce has been hashed by two different workers of the round.
InterleavedNonces ==
  /\ \A t \in Worker :
       \A i \in 1 .. Len(tried[t]) :
         /\ tried[t][i] = t + (i - 1) * num_threads
         /\ tried[t][i] % num_threads = t
  /\ \A t \in Worker : \A u \in Worker \ {t} :
       \A i \in 1 .. Len(tried[t]) : \A j \in 1 .. Len(tried[u]) :
         tried[t][i] # tried[u][j]

\* two workers in a round: worker 0 has hashed two nonces, worker 1 its first
TwoWorkersHaveHashed ==
  /\ num_threads = 2
  /\ tried[0] = << 0, 2 >>
  /\ tried[1] = << 1 >>

\* ===================================================================== C17
\* C17: while the workers of a round can run (from the spawning of the first
\* to the joining of the last), the found slot changes only from empty to the
\* proof of a worker that holds a qualifying hash and acquires the mutex, so
\* it changes at most once; a worker that acquires the mutex with a qualifying
\* hash when the slot is full leaves the slot as it is and exits.
FoundSetOnce ==
  [][ /\ (mpc \in {"spawn", "monitor", "join"} /\ found' # found) =>
           /\ ~found.some
           /\ \E t \in Worker :
                /\ w_pc[t] = "lock"
                /\ w_pc'[t] = "store_stop"
                /\ meets_difficulty(w_result[t], mine_difficulty)
                /\ found' = [some |-> TRUE, hash |-> w_result[t],
                             nonce |-> w_nonce[t], timestamp |-> timestamp]
      /\ \A t \in Worker :
           (w_pc[t] = "lock" /\ w_pc'[t] # "lock" /\ found.some) =>
             /\ found' = found
             /\ w_pc'[t] = "exited"
             /\ stop' = stop ]_vars

\* worker 0 found a qualifying hash after worker 1 had stored its proof: it
\* has exited and the slot holds the proof of worker 1
LateWinnerDiscarded ==
  /\ num_threads = 2
  /\ found.some
  /\ found.nonce = w_nonce[1]
  /\ w_pc[0] = "exited"
  /\ Len(tried[0]) > 0
  /\ w_nonce[0] # found.nonce
  /\ meets_difficulty(w_result[0], mine_difficulty)

\* ===================================================================== C18
\* the bytes that a string of hexadecimal digits stands for
hex_value(c) == IF c < 58 THEN c - 48 ELSE c - 87
hex_decode(digits) ==
  Force([i \in 0 .. ((BLen(digits) \div 2) - 1) |->
           16 * hex_value(digits[2 * i]) + hex_value(digits[2 * i + 1])])

\* the proof p is valid for the round of timestamp ts
valid_proof(p, ts) ==
  /\ p.some
  /\ p.timestamp = ts
  /\ p.hash = Only({ hash(x) : x \in {mining_input(ts, p.nonce)} })
  /\ meets_difficulty(p.hash, mine_difficulty)

\* C18: whenever the found slot holds a proof, its timestamp is that of the
\* round, its hash is hash(seed || address || timestamp_le || nonce_le) and
\* the hash meets the difficulty; the proof taken from the slot is the proof
\* the slot held, and the submission made carries the hash (in hexadecimal),
\* the nonce and the timestamp of that proof. (The slot is empty at first; a
\* step that leaves the slot and the timestamp as they were leaves the proof
\* valid, and every other step that ends with a proof in the slot is examined.)
ProofValid ==
  [][ /\ found'.some =>
           \/ found.some /\ found' = found /\ timestamp' = timestamp
           \/ valid_proof(found', timestamp')
      /\ (mpc = "take" /\ mpc' # "take") => proof_data' = found
      /\ (mpc = "submit" /\ mpc' # "submit") =>
           /\ valid_proof(proof_data, timestamp)
           /\ Len(submitted') = Len(submitted) + 1
           /\ \E e \in {submitted'[Len(submitted')]} :
                /\ hex_decode(e.hash) = proof_data.hash
                /\ e.nonce = proof_data.nonce
                /\ e.timestamp = proof_data.timestamp ]_vars

\* a proof found in the second round, at a nonce above 0, has been submitted
SecondProofSubmitted ==
  /\ Len(submitted) = 2
  /\ submitted[2].nonce > 0
  /\ submitted[2].timestamp = timestamp
  /\ hex_decode(submitted[2].hash) = proof_data.hash
  /\ mpc = "reset"

\* ===================================================================== C19
\* the threads of the round that have not ended
Running(t) == w_pc[t] \in {"load_stop", "hash", "lock", "store_stop"}

\* C19: a worker starts a hash only after it has loaded the stop flag and
\* found it clear; once the flag is set in a round, a worker starts at most one
\* further hash, after which it does not go on to another one; and every
\* worker that is running when the flag is set exits.
StopWithinOneHash ==
  /\ [][ \A t \in Worker :
           /\ (w_pc'[t] = "hash" /\ w_pc[t] # "hash") =>
                (w_pc[t] = "load_stop" /\ ~stop)
           /\ Len(tried'[t]) > Len(tried[t]) =>
                (w_pc[t] = "hash" /\ w_pc'[t] \in {"load_stop", "lock"})
           /\ (hashes_after_stop'[t] >= 1 /\ Running(t)') =>
                (stop' /\ w_pc'[t] \in {"load_stop", "lock"}) ]_vars
  /\ [](\A t \in Worker : hashes_after_stop[t] <= 1)
  /\ \A t \in Worker : (stop /\ Running(t)) ~> ~Running(t)

\* a worker has made one hash after the flag was set, and has exited
OneHashAfterStop ==
  \E t \in Worker :
    /\ stop
    /\ hashes_after_stop[t] = 1
    /\ w_pc[t] = "exited"
    /\ ~meets_difficulty(w_result[t], mine_difficulty)

\* ===================================================================== C20
\* every thread of the round has ended and has been joined
AllJoined == \A t \in Worker : w_pc[t] = (IF t < num_threads THEN "joined" ELSE "unspawned")

\* C20: with auto-submit, the main thread goes from the spawning of a round to
\* the joining of all its workers, then to the taking of the proof, then to
\* its one submission, then to the reset of the stop flag, the found slot and
\* the hash counter, then to the spawning of the next round; when the proof is
\* taken, submitted, and when the shared state is reset for the next round,
\* every worker of the round has exited and been joined; each round that found
\* a proof has made exactly one submission by the time of the next reset.
RoundOrder ==
  [][ ~no_submit' =>
      /\ mpc' # mpc =>
           << mpc, mpc' >> \in
             { << "start", "reset" >>, << "reset", "spawn" >>, << "spawn", "spawn" >>,
               << "spawn", "monitor" >>, << "spawn", "join" >>, << "monitor", "join" >>,
               << "join", "take" >>, << "take", "submit" >>, << "take", "done" >>,
               << "submit", "reset" >>,
               \* with no thread to spawn
               << "reset", "monitor" >>, << "reset", "take" >>, << "monitor", "take" >> }
      /\ (mpc' # mpc /\ num_threads > 0) =>
           << mpc, mpc' >> \notin
             { << "reset", "monitor" >>, << "reset", "take" >>, << "monitor", "take" >> }
      /\ \A t \in Worker : (~Running(t) /\ Running(t)') => (mpc = "spawn" /\ t = spawned)
      /\ (mpc = "join" /\ mpc' = "take") => AllJoined'
      /\ mpc \in {"take", "submit"} =>
           /\ AllJoined
           /\ Len(submitted) = mining_round - 1
      /\ (mpc = "take" /\ mpc' # mpc) =>
           /\ found.some => (mpc' = "submit" /\ proof_data' = found /\ ~found'.some)
           /\ ~found.some => mpc' = "done"
      /\ (mpc = "submit" /\ mpc' # mpc) =>
           /\ Len(submitted') = mining_round
           /\ mpc' = "reset"
      /\ (mpc = "reset" /\ mining_round > 0) =>
           /\ AllJoined
           /\ Len(submitted) = mining_round
      /\ (mpc = "reset" /\ mpc' # mpc /\ mining_round > 0) =>
           /\ ~stop' /\ ~found'.some /\ total_hashes' = 0
           /\ mpc' = "spawn" ]_vars

\* the workers of the second round are running, after the one submission of
\* the proof of the first round
SecondRoundRunning ==
  /\ ~no_submit
  /\ mining_round = 2
  /\ Len(submitted) = 1
  /\ num_threads = 2
  /\ Running(0)
  /\ Running(1)

\* ===================================================================== C21
\* the proof (hash, nonce, timestamp) of a submission
proof_of(e) == << e.hash, e.nonce, e.timestamp >>

\* C21 as stated: a proof whose submission has returned an error is not
\* submitted again; proofs_submitted increases by one on a submission that is
\* accepted and is left as it is by one that is not.
FailedProofNotResubmitted ==
  /\ \A i \in 1 .. Len(submitted) : \A j \in (i + 1) .. Len(submitted) :
       ~submitted[i].accepted => proof_of(submitted[j]) # proof_of(submitted[i])
  /\ proofs_submitted = Cardinality({ i \in 1 .. Len(submitted) : submitted[i].accepted })

\* the part of C21 about the counter and the loop: a submission that returns an
\* error leaves proofs_submitted as it is, one that is accepted adds one, no
\* other step changes it; the submission made, the main thread is at the reset,
\* and its next step clears the stop flag, the found slot and the counter of
\* hashes; there is one submission for each round, accepted or not.
SubmitCounted ==
  [][ /\ (mpc = "submit" /\ mpc' # mpc) =>
           /\ Len(submitted') = Len(submitted) + 1
           /\ proofs_submitted' =
                IF submitted'[Len(submitted')].accepted THEN proofs_submitted + 1
                ELSE proofs_submitted
           /\ mpc' = "reset"
      /\ ~(mpc = "submit" /\ mpc' # mpc) =>
           (proofs_submitted' = proofs_submitted /\ submitted' = submitted)
      /\ (mpc = "reset" /\ mpc' # mpc) =>
           (~stop' /\ ~found'.some /\ total_hashes' = 0 /\ found_lock' = NoThread)
      /\ Len(submitted') <= mining_round' ]_vars

\* a submission has returned an error and the round after it is under way
RoundAfterFailedSubmit ==
  /\ Len(submitted) = 1
  /\ ~submitted[1].accepted
  /\ proofs_submitted = 0
  /\ mining_round = 2
  /\ \E t \in Worker : Running(t)

\* ===================================================================== C28
\* C28 as stated: a round that follows a found proof has a timestamp other
\* than that of the round before it, and no two submissions carry the same
\* proof (hash, nonce, timestamp).
RoundTimestampsDiffer ==
  /\ (mining_round > 1 /\ mpc \in {"spawn", "monitor", "join", "take"}) =>
       timestamp # submitted[Len(submitted)].timestamp
  /\ \A i \in 1 .. Len(submitted) : \A j \in (i + 1) .. Len(submitted) :
       proof_of(submitted[j]) # proof_of(submitted[i])

\* without json the progress loop sleeps 2 s in every round, and the rounds
\* have timestamps that differ
SleepSeparatesRounds == ~json => RoundTimestampsDiffer

\* ===================================================================== C22
\* the hashes the workers 0 .. n-1 have computed in this round
RECURSIVE hashes_computed(_)
hashes_computed(n) == IF n = 0 THEN 0 ELSE Len(tried[n - 1]) + hashes_computed(n - 1)

\* C22: from the reset of a round to the next reset, total_hashes changes only
\* by the addition of one in the step in which one worker completes one hash,
\* and every such step adds one; it is the number of hashes the workers have
\* computed since the reset, in particular once all workers have been joined.
HashCounter ==
  /\ [][ /\ (mpc \notin {"start", "reset"} \/ mpc' = mpc) =>
               /\ total_hashes' >= total_hashes
               /\ total_hashes' - total_hashes =
                    hashes_computed(MaxThreads)' - hashes_computed(MaxThreads)
               /\ total_hashes' - total_hashes =
                    Cardinality({ t \in Worker : Len(tried'[t]) = Len(tried[t]) + 1 })
               /\ \A t \in Worker : Len(tried'[t]) \in {Len(tried[t]), Len(tried[t]) + 1}
         /\ (mpc = "reset" /\ mpc' # mpc) => total_hashes' = 0 ]_vars
  /\ [](mpc \notin {"start", "reset"} => total_hashes = hashes_computed(MaxThreads))

\* two workers have been joined after three hashes between them
ThreeHashesCounted ==
  /\ mpc = "take"
  /\ num_threads = 2
  /\ Len(tried[0]) = 2
  /\ Len(tried[1]) = 1
  /\ total_hashes = 3

\* ===================================================================== C27
\* C27: from the reset of a round to the taking of the proof, the stop flag is
\* set only if the found slot holds a proof; the step that sets the flag is
\* taken by a worker that holds the mutex and has stored its own proof in the
\* slot.
StopMeansFound ==
  /\ []((stop /\ mpc \in {"spawn", "monitor", "join", "take"}) => found.some)
  /\ [][ (stop' /\ ~stop) =>
           \E t \in Worker :
             /\ w_pc[t] = "store_stop"
             /\ w_pc'[t] = "exited"
             /\ found_lock = t
             /\ found = [some |-> TRUE, hash |-> w_result[t], nonce |-> w_nonce[t],
                         timestamp |-> timestamp]
             /\ found' = found ]_vars

\* the flag is set and the proof is in the slot, while a worker that has not
\* stored a proof is still running
StopSetWhileRunning ==
  /\ stop
  /\ found.some
  /\ mpc \in {"monitor", "join"}
  /\ \E t \in Worker : Running(t) /\ w_nonce[t] # found.nonce

\* ===================================================================== C29
\* C29 as stated: whatever the number of threads, when the main thread is in
\* the progress loop and no worker of the round is running, it can leave the
\* loop (the flag it waits for is set, as no thread is left to set it).
MainLeavesMonitor ==
  (mpc = "monitor" /\ \A t \in Worker : ~Running(t)) => ENABLED M_Monitor

\* with one thread or more, the last worker to exit leaves the flag set
MainLeavesMonitorWithWorkers == num_threads > 0 => MainLeavesMonitor

\* ===================================================================== C25
\* AES4(s, key): four AESENC rounds with the key
AES4(st, key) == aesenc_round(aesenc_round(aesenc_round(aesenc_round(st, key), key), key), key)

\* s_i of the seed: s_-1 = seed[16..32], s_i = AES4(s_(i-1), seed[0..16])
RECURSIVE aes_chain(_, _)
aes_chain(seed, i) ==
  IF i < 0 THEN Slice(seed, 16, 32)
  ELSE Only({ AES4(prev, Slice(seed, 0, 16)) : prev \in {aes_chain(seed, i - 1)} })

\* the 64 bytes of block i of a scratchpad
block_of(scratchpad, i) == Slice(scratchpad, i * BLOCK_SIZE, (i + 1) * BLOCK_SIZE)

\* the block of the pattern s || AES4(s, key) || s || AES4(s, key)
pattern_block(st, key) ==
  Only({ Concat(Concat(st, e), Concat(st, e)) : e \in {AES4(st, key)} })

\* C25: while and after fill_scratchpad_aes runs on the scratchpad of a chain
\* with the seed of the chain, every block i written so far is
\* s_i || AES4(s_i, key) || s_i || AES4(s_i, key), and the state carried to the
\* next iteration is s_i of the last block written (s_-1 before the first);
\* when the fill is over every block of the scratchpad has been written.
FillPattern ==
  \A c \in Chain :
    (pc = "init_scratchpads" /\ cpc[c] \in {"fill", "filled"}) =>
      /\ fill_state[c] = aes_chain(chain_seeds[c], fill_i[c] - 1)
      /\ \A i \in 0 .. (fill_i[c] - 1) :
           block_of(scratchpads[c], i) =
             pattern_block(aes_chain(chain_seeds[c], i), Slice(chain_seeds[c], 0, 16))
      /\ cpc[c] = "filled" => fill_i[c] = BLOCKS_PER_SCRATCHPAD

\* the fill of a chain is over, in a hash call on a hasher used before
ChainFilledAgain ==
  /\ pc = "init_scratchpads"
  /\ calls = 2
  /\ \E c \in Chain : cpc[c] = "filled" /\ fill_i[c] = BLOCKS_PER_SCRATCHPAD

\* ===================================================================== C26
\* the 16-byte values at the offsets 0, 16, 32, ... of a scratchpad
values16(scratchpad) ==
  { Slice(scratchpad, 16 * k, 16 * k + 16) : k \in 0 .. ((BLen(scratchpad) \div 16) - 1) }

\* C26: when the fill of a chain's scratchpad is over (and before any round),
\* bytes [16, 32) of block i are bytes [0, 16) of block i + 1 for every i below
\* BLOCKS_PER_SCRATCHPAD - 1, and the scratchpad holds at most
\* BLOCKS_PER_SCRATCHPAD + 1 distinct 16-byte values.
FillOverlap ==
  \A c \in Chain :
    (pc = "init_scratchpads" /\ cpc[c] = "filled") =>
      /\ \A i \in 0 .. (BLOCKS_PER_SCRATCHPAD - 2) :
           Slice(block_of(scratchpads[c], i), 16, 32) =
             Slice(block_of(scratchpads[c], i + 1), 0, 16)
      /\ Cardinality(values16(scratchpads[c])) <= BLOCKS_PER_SCRATCHPAD + 1

\* every chain has its scratchpad filled, and that of chain 0 holds
\* BLOCKS_PER_SCRATCHPAD + 1 distinct 16-byte values
AllFilledDistinct ==
  /\ pc = "init_scratchpads"
  /\ \A c \in Chain : cpc[c] = "filled"
  /\ Cardinality(values16(scratchpads[0])) = BLOCKS_PER_SCRATCHPAD + 1

\* ===================================================================== C30
\* the threads of start_mining that have not left their loop
DemoRunning == { k \in DemoThread : d_pc[k] \in {"load_mining", "hash"} }

\* C30: in the demo at most one thread spawned by start_mining is running at
\* any time, and hash_count holds only what the thread of the last
\* start_mining has added since hash_count was set to 0.
OneDemoMiner ==
  /\ Cardinality(DemoRunning) <= 1
  /\ \A k \in DemoThread : k + 1 < d_spawned => d_added[k] = 0

\* start_mining while mining is true returns the error and spawns nothing
AlreadyMiningNoSpawn ==
  [][(cmd_pc = "idle" /\ app_mining /\ cmd_pc' = cmd_pc /\ cmd_result' # cmd_result
        /\ app_mining')
       => cmd_result' = "already_mining" /\ d_spawned' = d_spawned /\ d_pc' = d_pc]_vars

\* ===================================================================== C24
\* C24: for every state and block, aes_compress of the x86, the ARM and the
\* software path return the 32 bytes of the reference (four AESENC rounds on
\* the low half with the keys 0, 1, 2, 3, four on the high half with the keys
\* 2, 3, 0, 1); one round of the ARM path (AESE with a zero key, AESMC, the
\* exclusive or with the round key) is one AESENC round; aes_expand_block of
\* the three paths is four AESENC rounds with the same key.
BackendsMatchReference ==
  fn_out.done =>
    \E st \in {Slice(fn_in.state, 0, 16)}, key \in {Slice(fn_in.block, 0, 16)},
       c \in {ref_aes_compress(fn_in.state, fn_in.block)} :
      \E e \in {ref_aes_expand(st, key)} :
        /\ fn_out.compress_x86 = c
        /\ fn_out.compress_arm = c
        /\ fn_out.compress_soft = c
        /\ fn_out.round_arm = ref_aesenc_round(st, key)
        /\ fn_out.round_arm = mm_aesenc_si128(st, key)
        /\ fn_out.expand_x86 = e
        /\ fn_out.expand_arm = e
        /\ fn_out.expand_soft = e

\* the primitives have been called on a state and a block whose four round
\* keys differ, and the two halves of the result differ from the state
BackendsCalled ==
  /\ fn_out.done
  /\ Cardinality({ Slice(fn_in.block, 16 * k, 16 * k + 16) : k \in 0 .. 3 }) = 4
  /\ Slice(fn_in.state, 0, 16) # Slice(fn_in.state, 16, 32)
  /\ fn_out.compress_arm # fn_in.state
  /\ Slice(fn_out.compress_arm, 0, 16) # Slice(fn_out.compress_arm, 16, 32)
====
